---- MODULE Spec2Model ----
(***************************************************************************)
(* Model of the product import pipeline: URL resolver, storefront scraper, *)
(* pricing engine, content optimizer and catalog publisher.                *)
(*                                                                         *)
(* Text is a sequence of one-character strings.  Money is an integer       *)
(* number of thousandths (Scale units per currency unit) in a record that  *)
(* also tells NaN and the absent price apart.                              *)
(***************************************************************************)
EXTENDS Integers, Sequences, FiniteSets, TLC

VARIABLES
  rnPc, rnText, rnWords, rnResult,       \* removeNegativeWords call
  opPc, opProduct, opPrompts, opWords, opAltFlag,   \* optimizeProduct call
  opTitle, opDesc, opImages, opSettled, opAiMade, opAiAlt, opResult,
  gaPc, gaResult,                        \* generateImageAltText call
  urlPc, urlScheme, urlStore, urlPath, urlDefault, urlResult,  \* parseShopifyUrl call
  colPc, colTotal, colServerPage, colPage, colProducts, colRequests,  \* scrapeCollectionUrl
  scPc, scUrls, scType, scIdx, scResults, scErrors, scFetched, scResponse, \* scrape action
  scInput, scOutcomes,
  prPc, prPrice, prCompareAt, prSettings, prCurrencies, prRounded, prResult, \* pricing calls
  prAgain,
  pubPc, pubProducts, pubCollectionIds, pubI, pubImported, pubFailed,   \* publish action
  pubCreatedProductIds, pubOutcomes, pubLogged, pubBatch, pubColIdx, pubAssigned,
  pubResponse, pubBatchWrites, pubCreateCalls, pubCollectionCalls, pubProductCalls,
  kyPc, kyAction, kyApiKey, kyOptimizeContent, kyEnhanceImages, kyProducts,  \* AI key
  kyProcessed, kyAiCalls, kyMutations, kyBatchRows, kyResponse,
  vpPc, vpVariants, vpSettings, vpCurrencies, vpResult,   \* applyPricingToAllVariants call
  rtPc, rtFn, rtAttempt, rtRequests, rtDelays, rtResponses, rtResult,   \* callGemini, enhanceProductImage retry loop
  obPc, obTotal, obI, obStarted, obInFlight, obOutcome, obOptimized, obWarnings,   \* optimizeProducts call
  psPc, psFlags, psProducts, psI, psImported, psFailed, psCreated, psOutcomes, psCalls,
  psBatch, psStatusWrites, psCollectionIds, psCollectionFailed,   \* publish action, the steps of each product
  roPc, roProduct, roScraped, roInput, roRounds,   \* optimizeProduct applied to its own result
  nzPc, nzRaw, nzResult,   \* scrapeProductUrl and normalizeProduct
  csPc, csTargets, csIdx, csPage, csProducts, csResults, csErrors, csRead, csOutcomes,   \* scrape action over paged collection URLs
  tnTemplates, tnWords, tnSettings, tnBatches, tnRuns, tnLast, tnRequests   \* the D1 tables and the requests of two shops

rnVars == <<rnPc, rnText, rnWords, rnResult>>
opVars == <<opPc, opProduct, opPrompts, opWords, opAltFlag,
            opTitle, opDesc, opImages, opSettled, opAiMade, opAiAlt, opResult>>
gaVars == <<gaPc, gaResult>>
urlVars == <<urlPc, urlScheme, urlStore, urlPath, urlDefault, urlResult>>

colVars == <<colPc, colTotal, colServerPage, colPage, colProducts, colRequests>>
scVars == <<scPc, scUrls, scType, scIdx, scResults, scErrors, scFetched, scResponse,
            scInput, scOutcomes>>

prVars == <<prPc, prPrice, prCompareAt, prSettings, prCurrencies, prRounded, prResult,
            prAgain>>

pubVars == <<pubPc, pubProducts, pubCollectionIds, pubI, pubImported, pubFailed,
             pubCreatedProductIds, pubOutcomes, pubLogged, pubBatch, pubColIdx,
             pubAssigned, pubResponse, pubBatchWrites, pubCreateCalls,
             pubCollectionCalls, pubProductCalls>>

kyVars == <<kyPc, kyAction, kyApiKey, kyOptimizeContent, kyEnhanceImages, kyProducts,
            kyProcessed, kyAiCalls, kyMutations, kyBatchRows, kyResponse>>

vpVars == <<vpPc, vpVariants, vpSettings, vpCurrencies, vpResult>>

rtVars == <<rtPc, rtFn, rtAttempt, rtRequests, rtDelays, rtResponses, rtResult>>

obVars == <<obPc, obTotal, obI, obStarted, obInFlight, obOutcome, obOptimized, obWarnings>>

psVars == <<psPc, psFlags, psProducts, psI, psImported, psFailed, psCreated, psOutcomes, psCalls,
  psBatch, psStatusWrites, psCollectionIds, psCollectionFailed>>

roVars == <<roPc, roProduct, roScraped, roInput, roRounds>>

nzVars == <<nzPc, nzRaw, nzResult>>

csVars == <<csPc, csTargets, csIdx, csPage, csProducts, csResults, csErrors, csRead, csOutcomes>>

tnVars == <<tnTemplates, tnWords, tnSettings, tnBatches, tnRuns, tnLast, tnRequests>>

vars == <<rnVars, opVars, gaVars, urlVars, colVars, scVars, prVars, pubVars, kyVars, vpVars, rtVars, obVars, psVars, roVars, nzVars, csVars, tnVars>>

\* the variables of the other calls, which a call leaves alone
exceptStrip == <<opVars, gaVars, urlVars, colVars, scVars, prVars, pubVars, kyVars, vpVars, rtVars, obVars, psVars, roVars, nzVars, csVars, tnVars>>
exceptOptimize == <<rnVars, urlVars, colVars, scVars, prVars, pubVars, kyVars, vpVars, rtVars, obVars, psVars, roVars, nzVars, csVars, tnVars>>
exceptUrl == <<rnVars, opVars, gaVars, colVars, scVars, prVars, pubVars, kyVars, vpVars, rtVars, obVars, psVars, roVars, nzVars, csVars, tnVars>>
exceptCollection == <<rnVars, opVars, gaVars, urlVars, scVars, prVars, pubVars, kyVars, vpVars, rtVars, obVars, psVars, roVars, nzVars, csVars, tnVars>>
exceptScrape == <<rnVars, opVars, gaVars, urlVars, colVars, prVars, pubVars, kyVars, vpVars, rtVars, obVars, psVars, roVars, nzVars, csVars, tnVars>>
exceptPublish == <<rnVars, opVars, gaVars, urlVars, colVars, scVars, prVars, kyVars, vpVars, rtVars, obVars, psVars, roVars, nzVars, csVars, tnVars>>
exceptKey == <<rnVars, opVars, gaVars, urlVars, colVars, scVars, prVars, pubVars, vpVars, rtVars, obVars, psVars, roVars, nzVars, csVars, tnVars>>
exceptVariants == <<rnVars, opVars, gaVars, urlVars, colVars, scVars, prVars, pubVars, kyVars, rtVars, obVars, psVars, roVars, nzVars, csVars, tnVars>>
exceptRetry == <<rnVars, opVars, gaVars, urlVars, colVars, scVars, prVars, pubVars, kyVars, vpVars, obVars, psVars, roVars, nzVars, csVars, tnVars>>
exceptBatches == <<rnVars, opVars, gaVars, urlVars, colVars, scVars, prVars, pubVars, kyVars, vpVars, rtVars, psVars, roVars, nzVars, csVars, tnVars>>
exceptSteps == <<rnVars, opVars, gaVars, urlVars, colVars, scVars, prVars, pubVars, kyVars, vpVars, rtVars, obVars, roVars, nzVars, csVars, tnVars>>
exceptReoptimize == <<rnVars, opVars, gaVars, urlVars, colVars, scVars, prVars, pubVars, kyVars, vpVars, rtVars, obVars, psVars, nzVars, csVars, tnVars>>
exceptNormalize == <<rnVars, opVars, gaVars, urlVars, colVars, scVars, prVars, pubVars, kyVars, vpVars, rtVars, obVars, psVars, roVars, csVars, tnVars>>
exceptPages == <<rnVars, opVars, gaVars, urlVars, colVars, scVars, prVars, pubVars, kyVars, vpVars, rtVars, obVars, psVars, roVars, nzVars, tnVars>>
exceptTenants == <<rnVars, opVars, gaVars, urlVars, colVars, scVars, prVars, pubVars, kyVars, vpVars, rtVars, obVars, psVars, roVars, nzVars, csVars>>
exceptPricing == <<rnVars, opVars, gaVars, urlVars, colVars, scVars, pubVars, kyVars, vpVars, rtVars, obVars, psVars, roVars, nzVars, csVars, tnVars>>

NULL == "null"

(***************************************************************************)
(* Bounds                                                                  *)
(***************************************************************************)
MaxTextLen == 4
MaxWords == 2
MaxCollection == 501
MaxUrls == 2
MaxPrice == 2
MaxProducts == 4
MaxKeyProducts == 3
MaxVariants == 2
MaxBatchProducts == 7

(***************************************************************************)
(* Generic helpers                                                         *)
(***************************************************************************)
SeqsUpTo(S, n) == UNION {[1..k -> S] : k \in 0..n}

Range(s) == {s[k] : k \in 1..Len(s)}

(***************************************************************************)
(* Characters and regular-expression primitives (gemini.server.ts)         *)
(***************************************************************************)
TextChars == {"a", "A", "b", " ", "-"}

\* \w of the regular expression
IsWordChar(c) == c \in {"a", "A", "b", "B"}

\* \s of the regular expression
IsSpace(c) == c = " "

\* case folding applied by the "i" flag
Lower(c) == IF c = "A" THEN "a" ELSE IF c = "B" THEN "b" ELSE c

LowerSeq(s) == [k \in 1..Len(s) |-> Lower(s[k])]

\* characters that make `new RegExp` throw when spliced in unescaped
RegexCompiles(word) == \A k \in 1..Len(word) : word[k] # "("

\* \b at position p: between text[p-1] and text[p]
WordBoundary(text, p) ==
  LET before == p - 1 \in 1..Len(text) /\ IsWordChar(text[p - 1])
      after == p \in 1..Len(text) /\ IsWordChar(text[p])
  IN before # after

\* the pattern \bword\b (flags gi) matches at position i of text
MatchAtCaseSensitive(text, word, i) ==
  /\ i + Len(word) - 1 <= Len(text)
  /\ WordBoundary(text, i)
  /\ \A k \in 1..Len(word) : text[i + k - 1] = word[k]
  /\ WordBoundary(text, i + Len(word))

MatchAt(text, word, i) ==
  /\ i + Len(word) - 1 <= Len(text)
  /\ WordBoundary(text, i)
  /\ \A k \in 1..Len(word) : Lower(text[i + k - 1]) = Lower(word[k])
  /\ WordBoundary(text, i + Len(word))

\* result.replace(regex, ""): left-to-right, non-overlapping
RECURSIVE ReplaceFrom(_, _, _)
ReplaceFrom(text, word, i) ==
  IF i > Len(text) THEN <<>>
  ELSE IF Len(word) > 0 /\ MatchAt(text, word, i)
       THEN ReplaceFrom(text, word, i + Len(word))
       ELSE <<text[i]>> \o ReplaceFrom(text, word, i + 1)

RECURSIVE ReplaceAllWords(_, _)
ReplaceAllWords(text, words) ==
  IF words = <<>> THEN text
  ELSE ReplaceAllWords(ReplaceFrom(text, Head(words), 1), Tail(words))

\* .replace(/\s{2,}/g, " ")
RECURSIVE CollapseSpaces(_)
CollapseSpaces(text) ==
  IF Len(text) < 2 THEN text
  ELSE IF IsSpace(text[1]) /\ IsSpace(text[2])
       THEN CollapseSpaces(<<" ">> \o Tail(Tail(text)))
       ELSE <<text[1]>> \o CollapseSpaces(Tail(text))

\* .trim()
RECURSIVE Trim(_)
Trim(text) ==
  IF text = <<>> THEN text
  ELSE IF IsSpace(text[1]) THEN Trim(Tail(text))
  ELSE IF IsSpace(text[Len(text)]) THEN Trim(SubSeq(text, 1, Len(text) - 1))
  ELSE text

\* removeNegativeWords; "raised" when a word does not compile
removeNegativeWords(text, negativeWords) ==
  Trim(CollapseSpaces(ReplaceAllWords(text, negativeWords)))

removeNegativeWordsRaises(negativeWords) ==
  \E k \in 1..Len(negativeWords) : ~RegexCompiles(negativeWords[k])

(***************************************************************************)
(* Specification SpecStrip: one call of removeNegativeWords                *)
(***************************************************************************)
Texts == SeqsUpTo(TextChars, MaxTextLen)

LetterWords == {<<"a">>, <<"b">>, <<"a", "b">>, <<"B", "a">>}

Denylists == SeqsUpTo(LetterWords, MaxWords)

IdleStrip ==
  /\ rnPc = "idle"
  /\ rnText = <<>>
  /\ rnWords = <<>>
  /\ rnResult = <<>>

IdleOptimize ==
  /\ opPc = "idle"
  /\ opProduct = NULL
  /\ opPrompts = NULL
  /\ opWords = <<>>
  /\ opAltFlag = FALSE
  /\ opTitle = <<>>
  /\ opDesc = <<>>
  /\ opImages = <<>>
  /\ opSettled = {}
  /\ opAiMade = {}
  /\ opAiAlt = {}
  /\ opResult = NULL
  /\ gaPc = "idle"
  /\ gaResult = <<>>

IdleUrl ==
  /\ urlPc = "idle"
  /\ urlScheme = <<>>
  /\ urlStore = <<>>
  /\ urlPath = <<>>
  /\ urlDefault = NULL
  /\ urlResult = NULL

IdleCollection ==
  /\ colPc = "idle"
  /\ colTotal = 0
  /\ colServerPage = 0
  /\ colPage = 0
  /\ colProducts = <<>>
  /\ colRequests = 0

IdleScrape ==
  /\ scPc = "idle"
  /\ scUrls = <<>>
  /\ scType = NULL
  /\ scIdx = 0
  /\ scResults = <<>>
  /\ scErrors = <<>>
  /\ scFetched = <<>>
  /\ scResponse = NULL
  /\ scInput = <<>>
  /\ scOutcomes = <<>>

IdlePricing ==
  /\ prPc = "idle"
  /\ prPrice = NULL
  /\ prCompareAt = NULL
  /\ prSettings = NULL
  /\ prCurrencies = NULL
  /\ prRounded = NULL
  /\ prResult = NULL
  /\ prAgain = NULL

\* a null completed_at
NullTime == 0

NoBatch == [status |-> "none", total_products |-> 0, imported_products |-> 0,
            failed_products |-> 0, created_at |-> NullTime, completed_at |-> NullTime]

\* the batch row by its status and counters only
NoRow == [status |-> "none", total_products |-> 0, imported_products |-> 0,
          failed_products |-> 0]

NoResponse == [batchId |-> 0, imported |-> 0, failed |-> 0, total |-> 0]

IdlePublish ==
  /\ pubPc = "idle"
  /\ pubProducts = <<>>
  /\ pubCollectionIds = <<>>
  /\ pubI = 0
  /\ pubImported = 0
  /\ pubFailed = 0
  /\ pubCreatedProductIds = <<>>
  /\ pubOutcomes = <<>>
  /\ pubLogged = 0
  /\ pubBatch = NoBatch
  /\ pubColIdx = 0
  /\ pubAssigned = {}
  /\ pubResponse = NoResponse
  /\ pubBatchWrites = <<>>
  /\ pubCreateCalls = <<>>
  /\ pubCollectionCalls = <<>>
  /\ pubProductCalls = <<>>

IdleKey ==
  /\ kyPc = "idle"
  /\ kyAction = NULL
  /\ kyApiKey = FALSE
  /\ kyOptimizeContent = FALSE
  /\ kyEnhanceImages = FALSE
  /\ kyProducts = 0
  /\ kyProcessed = 0
  /\ kyAiCalls = 0
  /\ kyMutations = 0
  /\ kyBatchRows = 0
  /\ kyResponse = NULL

IdleVariants ==
  /\ vpPc = "idle"
  /\ vpVariants = <<>>
  /\ vpSettings = NULL
  /\ vpCurrencies = NULL
  /\ vpResult = <<>>

IdleRetry ==
  /\ rtPc = "idle"
  /\ rtFn = NULL
  /\ rtAttempt = 0
  /\ rtRequests = 0
  /\ rtDelays = <<>>
  /\ rtResponses = <<>>
  /\ rtResult = NULL

IdleBatches ==
  /\ obPc = "idle"
  /\ obTotal = 0
  /\ obI = 0
  /\ obStarted = {}
  /\ obInFlight = {}
  /\ obOutcome = <<>>
  /\ obOptimized = <<>>
  /\ obWarnings = <<>>

IdleSteps ==
  /\ psPc = "idle"
  /\ psFlags = [optimizeContent |-> FALSE, enhanceImages |-> FALSE, geminiApiKey |-> FALSE]
  /\ psProducts = <<>>
  /\ psI = 0
  /\ psImported = 0
  /\ psFailed = 0
  /\ psCreated = <<>>
  /\ psOutcomes = <<>>
  /\ psCalls = <<>>
  /\ psBatch = NoRow
  /\ psStatusWrites = <<>>
  /\ psCollectionIds = <<>>
  /\ psCollectionFailed = {}

IdleReoptimize ==
  /\ roPc = "idle"
  /\ roProduct = [title |-> NULL, description |-> NULL, vendor |-> NULL, alt |-> NULL, originalTitle |-> NULL, originalDescription |-> NULL]
  /\ roScraped = [title |-> NULL, description |-> NULL, vendor |-> NULL, alt |-> NULL, originalTitle |-> NULL, originalDescription |-> NULL]
  /\ roInput = [title |-> NULL, description |-> NULL, vendor |-> NULL, alt |-> NULL, originalTitle |-> NULL, originalDescription |-> NULL]
  /\ roRounds = 0

IdleNormalize ==
  /\ nzPc = "idle"
  /\ nzRaw = [product |-> {}, image |-> {}, variant |-> {}, option |-> {}]
  /\ nzResult = [externalId |-> NULL, title |-> NULL, handle |-> NULL, description |-> NULL, vendor |-> NULL, productType |-> NULL, tags |-> NULL, images |-> <<>>, variants |-> <<>>, options |-> <<>>]

IdlePages ==
  /\ csPc = "idle"
  /\ csTargets = <<>>
  /\ csIdx = 0
  /\ csPage = 0
  /\ csProducts = <<>>
  /\ csResults = <<>>
  /\ csErrors = <<>>
  /\ csRead = <<>>
  /\ csOutcomes = <<>>

IdleTenants ==
  /\ tnTemplates = <<>>
  /\ tnWords = {}
  /\ tnSettings = {}
  /\ tnBatches = <<>>
  /\ tnRuns = <<>>
  /\ tnLast = [op |-> "idle", by |-> "none", id |-> 0, rows |-> {}]
  /\ tnRequests = 0

InitStrip ==
  /\ rnPc = "call"
  /\ rnText \in Texts
  /\ rnWords \in Denylists
  /\ rnResult = <<>>
  /\ IdleOptimize
  /\ IdleUrl
  /\ IdleCollection
  /\ IdleScrape
  /\ IdlePricing
  /\ IdlePublish
  /\ IdleKey
  /\ IdleVariants
  /\ IdleRetry
  /\ IdleBatches
  /\ IdleSteps
  /\ IdleReoptimize
  /\ IdleNormalize
  /\ IdlePages
  /\ IdleTenants

RemoveNegativeWordsCall ==
  /\ rnPc = "call"
  /\ rnResult' = removeNegativeWords(rnText, rnWords)
  /\ rnPc' = "done"
  /\ UNCHANGED <<rnText, rnWords, exceptStrip>>

NextStrip == RemoveNegativeWordsCall

SpecStrip == InitStrip /\ [][NextStrip]_vars

\* maximal runs of word characters, in order
RECURSIVE Tokens(_)
Tokens(text) ==
  IF text = <<>> THEN <<>>
  ELSE IF ~IsWordChar(text[1]) THEN Tokens(Tail(text))
  ELSE LET n == CHOOSE m \in 1..Len(text) :
                  /\ \A k \in 1..m : IsWordChar(text[k])
                  /\ (m = Len(text) \/ ~IsWordChar(text[m + 1]))
       IN <<SubSeq(text, 1, n)>> \o Tokens(SubSeq(text, n + 1, Len(text)))

Denylisted(token, words) == \E k \in 1..Len(words) : LowerSeq(words[k]) = LowerSeq(token)

KeepTokens(tokens, words) ==
  LET keep(t) == ~Denylisted(t, words) IN SelectSeq(tokens, keep)

NonSpaceChars(text) == LET ns(c) == ~IsSpace(c) /\ ~IsWordChar(c) IN SelectSeq(text, ns)

Fence == "~~~"
Quote == "'"

\* stripCodeFences on one line of text, then .trim()
StripCodeFences(text) ==
  LET t1 == IF text # <<>> /\ text[1] = Fence THEN Trim(Tail(text)) ELSE text
      t2 == Trim(t1)
      t3 == IF t2 # <<>> /\ t2[Len(t2)] = Fence THEN SubSeq(t2, 1, Len(t2) - 1) ELSE t1
  IN Trim(t3)

\* .replace(/^["']|["']$/g, "")
StripQuotes(text) ==
  LET t1 == IF text # <<>> /\ text[1] = Quote THEN Tail(text) ELSE text
  IN IF t1 # <<>> /\ t1[Len(t1)] = Quote THEN SubSeq(t1, 1, Len(t1) - 1) ELSE t1

\* what callGemini can resolve to (non-empty, trimmed), or its rejection
AiTexts ==
  { <<"b">>,
    <<"A", " ", "b">>,
    <<Quote, "a", "-", "b", Quote>>,
    <<Fence, " ", "b", " ", "a", Fence>> }

AiFail == [ok |-> FALSE, text |-> <<>>]

AiOutcomes == {[ok |-> TRUE, text |-> t] : t \in AiTexts} \cup {AiFail}

\* an image without alt text
NullAlt == <<NULL>>

ProductTitles == { <<"b">>, <<"a", " ", "b">>, <<"b", " ", " ", "b">> }

ProductDescriptions == { <<"b", "-", "b">>, <<"A">> }

ProductImageLists == { <<>>, <<NullAlt>>, <<<<"a", " ", "b">>, NullAlt>> }

OptimizeDenylists == { <<>>, <<<<"a">>>>, <<<<"b", "a">>, <<"a">>>>, <<<<"(", "a">>>> }

PromptPairs == { <<NULL, NULL>>, <<"titlePrompt", "descriptionPrompt">> }

\* the request calls either optimizeProduct or generateImageAltText
InitOptimize ==
  /\ IdleStrip
  /\ IdleUrl
  /\ IdleCollection
  /\ IdleScrape
  /\ IdlePricing
  /\ IdlePublish
  /\ IdleKey
  /\ IdleVariants
  /\ IdleRetry
  /\ IdleBatches
  /\ IdleSteps
  /\ IdleReoptimize
  /\ IdleNormalize
  /\ IdlePages
  /\ IdleTenants
  /\ \/ opPc = "title" /\ gaPc = "idle"
     \/ opPc = "idle" /\ gaPc = "call"
  /\ opProduct \in [title : ProductTitles, description : ProductDescriptions,
                    images : ProductImageLists]
  /\ opPrompts \in PromptPairs
  /\ opWords \in OptimizeDenylists
  /\ opAltFlag \in BOOLEAN
  /\ opTitle = <<>>
  /\ opDesc = <<>>
  /\ opImages = <<>>
  /\ opSettled = {}
  /\ opAiMade = {}
  /\ opAiAlt = {}
  /\ opResult = NULL
  /\ gaResult = <<>>

\* gemini.server.ts 345-359: title call, fallback to product.title
OptimizeTitle ==
  /\ opPc = "title"
  /\ \E r \in AiOutcomes :
       IF r = AiFail
       THEN opTitle' = opProduct.title /\ opAiMade' = opAiMade
       ELSE opTitle' = StripQuotes(StripCodeFences(r.text)) /\ opAiMade' = opAiMade \cup {"title"}
  /\ opPc' = "description"
  /\ UNCHANGED <<opProduct, opPrompts, opWords, opAltFlag, opDesc, opImages,
                 opSettled, opAiAlt, opResult, gaVars, exceptOptimize>>

\* gemini.server.ts 361-373: description call, fallback to product.description;
\* 375-389: the alt texts are attempted only with the flag set and images
OptimizeDescription ==
  /\ opPc = "description"
  /\ \E r \in AiOutcomes :
       IF r = AiFail
       THEN opDesc' = opProduct.description /\ opAiMade' = opAiMade
       ELSE opDesc' = StripCodeFences(r.text) /\ opAiMade' = opAiMade \cup {"description"}
  /\ opImages' = opProduct.images
  /\ opPc' = IF opAltFlag /\ Len(opProduct.images) > 0 THEN "alt" ELSE "post"
  /\ UNCHANGED <<opProduct, opPrompts, opWords, opAltFlag, opTitle,
                 opSettled, opAiAlt, opResult, gaVars, exceptOptimize>>

\* gemini.server.ts 378-388: the per-image calls of Promise.all settle in any
\* order, each with its own catch
OptimizeAltText ==
  /\ opPc = "alt"
  /\ \E i \in (1..Len(opProduct.images)) \ opSettled :
       /\ \E r \in AiOutcomes :
            IF r = AiFail
            THEN opImages' = opImages /\ opAiAlt' = opAiAlt
            ELSE /\ opImages' = [opImages EXCEPT ![i] = StripQuotes(StripCodeFences(r.text))]
                 /\ opAiAlt' = opAiAlt \cup {i}
       /\ opSettled' = opSettled \cup {i}
       /\ opPc' = IF opSettled' = 1..Len(opProduct.images) THEN "post" ELSE "alt"
  /\ UNCHANGED <<opProduct, opPrompts, opWords, opAltFlag, opTitle, opDesc,
                 opAiMade, opResult, gaVars, exceptOptimize>>

\* gemini.server.ts 391-404: negative-word post-processing and the result
OptimizePostProcess ==
  /\ opPc = "post"
  /\ IF Len(opWords) > 0 /\ removeNegativeWordsRaises(opWords)
     THEN /\ opPc' = "raised"
          /\ UNCHANGED <<opTitle, opDesc, opResult>>
     ELSE /\ opTitle' = IF Len(opWords) > 0 THEN removeNegativeWords(opTitle, opWords)
                        ELSE opTitle
          /\ opDesc' = IF Len(opWords) > 0 THEN removeNegativeWords(opDesc, opWords)
                       ELSE opDesc
          /\ opResult' = [title |-> opTitle', description |-> opDesc', images |-> opImages,
                          originalTitle |-> opProduct.title,
                          originalDescription |-> opProduct.description]
          /\ opPc' = "done"
  /\ UNCHANGED <<opProduct, opPrompts, opWords, opAltFlag, opImages, opSettled,
                 opAiMade, opAiAlt, gaVars, exceptOptimize>>

\* gemini.server.ts 508-534: generateImageAltText; a failed call propagates
GenerateImageAltText ==
  /\ gaPc = "call"
  /\ \E r \in AiOutcomes :
       IF r = AiFail
       THEN gaPc' = "raised" /\ gaResult' = gaResult
       ELSE LET altText == StripQuotes(StripCodeFences(r.text))
            IN IF Len(opWords) > 0 /\ removeNegativeWordsRaises(opWords)
               THEN gaPc' = "raised" /\ gaResult' = gaResult
               ELSE /\ gaPc' = "done"
                    /\ gaResult' = IF Len(opWords) > 0
                                   THEN removeNegativeWords(altText, opWords)
                                   ELSE altText
  /\ UNCHANGED <<opVars, exceptOptimize>>

NextOptimize ==
  \/ OptimizeTitle
  \/ OptimizeDescription
  \/ OptimizeAltText
  \/ OptimizePostProcess
  \/ GenerateImageAltText

SpecOptimize == InitOptimize /\ [][NextOptimize]_vars

ContainsDenylisted(text, words) ==
  \E k \in 1..Len(words) : \E i \in 1..Len(text) :
     Len(words[k]) > 0 /\ MatchAt(text, words[k], i)

\* C2: optimizeProduct never raises, and when every AI call failed the
\* returned title, description and image alt texts are the input product's.
C2_NeverRaisesFallsBack ==
  /\ opPc # "raised"
  /\ (opPc = "done" /\ opAiMade = {} /\ opAiAlt = {}) =>
       /\ opResult.title = opProduct.title
       /\ opResult.description = opProduct.description
       /\ opResult.images = opProduct.images

\* C3: with a non-empty denylist no denylisted word occurs as a whole word,
\* in any letter case, in any AI-generated field that optimizeProduct or
\* generateImageAltText returns (title, description, generated alt texts).
C3_AiTextStripped ==
  /\ (opPc = "done" /\ Len(opWords) > 0) =>
       /\ "title" \in opAiMade => ~ContainsDenylisted(opResult.title, opWords)
       /\ "description" \in opAiMade => ~ContainsDenylisted(opResult.description, opWords)
       /\ \A i \in 1..Len(opResult.images) :
            i \in opAiAlt => ~ContainsDenylisted(opResult.images[i], opWords)
  /\ (gaPc = "done" /\ Len(opWords) > 0) => ~ContainsDenylisted(gaResult, opWords)

(***************************************************************************)
(* Specification SpecUrl: one call of parseShopifyUrl.  A URL string is a  *)
(* sequence of atoms: "http", "s", ":", "/", " " and name atoms.           *)
(***************************************************************************)
UrlNameAtoms == {"http", "s", "shop", "Shop", ".com", "collections", "products", "c", "p"}

\* ASCII lower-casing of a host (the URL parser's host serialisation)
LowerAtom(a) == IF a = "Shop" THEN "shop" ELSE a

LowerAtoms(seq) == [k \in 1..Len(seq) |-> LowerAtom(seq[k])]

IndexOf(seq, a) ==
  IF \E k \in 1..Len(seq) : seq[k] = a
  THEN CHOOSE k \in 1..Len(seq) : seq[k] = a /\ \A j \in 1..(k - 1) : seq[j] # a
  ELSE 0

\* trimmed.startsWith("http")
StartsWithHttp(seq) == Len(seq) > 0 /\ seq[1] = "http"

RECURSIVE SkipSlashes(_)
SkipSlashes(seq) == IF seq # <<>> /\ seq[1] = "/" THEN SkipSlashes(Tail(seq)) ELSE seq

UrlFailure == [ok |-> FALSE]

\* new URL(input) without a base: failure, or hostname and pathname
NewURL(input) ==
  LET colon == IndexOf(input, ":")
      scheme == SubSeq(input, 1, colon - 1)
      validScheme == /\ colon > 1
                     /\ \A k \in 1..Len(scheme) : scheme[k] \in UrlNameAtoms
                     /\ scheme[1] # ".com"
      rest == SubSeq(input, colon + 1, Len(input))
  IN IF ~validScheme THEN UrlFailure
     ELSE IF LowerAtoms(scheme) \in {<<"http">>, <<"http", "s">>}
     THEN LET afterSlashes == SkipSlashes(rest)
              slash == IndexOf(afterSlashes, "/")
              authority == IF slash = 0 THEN afterSlashes
                           ELSE SubSeq(afterSlashes, 1, slash - 1)
              portAt == IndexOf(authority, ":")
              host == IF portAt = 0 THEN authority ELSE SubSeq(authority, 1, portAt - 1)
              port == IF portAt = 0 THEN <<>>
                      ELSE SubSeq(authority, portAt + 1, Len(authority))
              path == IF slash = 0 THEN <<"/">>
                      ELSE SubSeq(afterSlashes, slash, Len(afterSlashes))
          IN IF host = <<>> \/ port # <<>> \/ \E k \in 1..Len(host) : host[k] = " "
             THEN UrlFailure
             ELSE [ok |-> TRUE, hostname |-> LowerAtoms(host), pathname |-> path]
     ELSE [ok |-> TRUE, hostname |-> <<>>, pathname |-> rest]

\* pathname.split("/").filter(Boolean): the non-empty segments
RECURSIVE PathParts(_)
PathParts(path) ==
  IF path = <<>> THEN <<>>
  ELSE IF path[1] = "/" THEN PathParts(Tail(path))
  ELSE LET slash == IndexOf(path, "/")
           n == IF slash = 0 THEN Len(path) ELSE slash - 1
       IN <<SubSeq(path, 1, n)>> \o PathParts(SubSeq(path, n + 1, Len(path)))

HttpsPrefix == <<"http", "s", ":", "/", "/">>

HttpPrefix == <<"http", ":", "/", "/">>

\* parseShopifyUrl with the product prefix tested first
parseShopifyUrlProductFirst(url, defaultType) ==
  LET trimmed == Trim(url)
      parsed == NewURL(IF StartsWithHttp(trimmed) THEN trimmed ELSE HttpsPrefix \o trimmed)
  IN IF ~parsed.ok THEN [ok |-> FALSE, error |-> "Invalid URL"]
     ELSE LET store == parsed.hostname
              pathParts == PathParts(parsed.pathname)
          IN IF \E k \in 1..(Len(pathParts) - 1) : pathParts[k] = <<"products">>
             THEN LET k == CHOOSE j \in 1..(Len(pathParts) - 1) : pathParts[j] = <<"products">>
                  IN [ok |-> TRUE, store |-> store, handle |-> pathParts[k + 1],
                      type |-> "product"]
             ELSE IF Len(pathParts) >= 2 /\ pathParts[1] = <<"collections">>
             THEN [ok |-> TRUE, store |-> store, handle |-> pathParts[2], type |-> "collection"]
             ELSE IF Len(pathParts) > 0
             THEN [ok |-> TRUE, store |-> store, handle |-> pathParts[Len(pathParts)],
                   type |-> defaultType]
             ELSE [ok |-> FALSE, error |-> "Could not parse handle from URL"]

\* scraper.server.ts 9-39
parseShopifyUrl(url, defaultType) ==
  LET trimmed == Trim(url)
      parsed == NewURL(IF StartsWithHttp(trimmed) THEN trimmed ELSE HttpsPrefix \o trimmed)
  IN IF ~parsed.ok THEN [ok |-> FALSE, error |-> "Invalid URL"]
     ELSE LET store == parsed.hostname
              pathParts == PathParts(parsed.pathname)
          IN IF Len(pathParts) >= 2 /\ pathParts[1] = <<"collections">>
             THEN [ok |-> TRUE, store |-> store, handle |-> pathParts[2], type |-> "collection"]
             ELSE IF Len(pathParts) >= 2 /\ pathParts[1] = <<"products">>
             THEN [ok |-> TRUE, store |-> store, handle |-> pathParts[2], type |-> "product"]
             ELSE IF Len(pathParts) > 0
             THEN [ok |-> TRUE, store |-> store, handle |-> pathParts[Len(pathParts)],
                   type |-> defaultType]
             ELSE [ok |-> FALSE, error |-> "Could not parse handle from URL"]

UrlSchemes == { <<>>, HttpsPrefix, HttpPrefix }

UrlStores == { <<"shop", ".com">>, <<"Shop", ".com">>, <<"http", "shop", ".com">> }

UrlHandles == { <<"c">>, <<"p">>, <<"products">>, <<"collections">>, <<"http", "s">> }

CollectionProductPath(c, p) == <<"/", "collections", "/">> \o c \o <<"/", "products", "/">> \o p

UrlPaths ==
  { <<>>, <<"/">>, <<"/", "collections">>, <<"/", "products", "/">> }
  \cup { <<"/">> \o h : h \in UrlHandles }
  \cup { <<"/", "products", "/">> \o h : h \in UrlHandles }
  \cup { <<"/", "collections", "/">> \o h \o <<"/">> : h \in UrlHandles }
  \cup { CollectionProductPath(c, p) : c \in UrlHandles, p \in UrlHandles }

DefaultTypes == {"product", "collection"}

urlInput == urlScheme \o urlStore \o urlPath

InitUrl ==
  /\ IdleStrip
  /\ IdleOptimize
  /\ IdleCollection
  /\ IdleScrape
  /\ IdlePricing
  /\ IdlePublish
  /\ IdleKey
  /\ IdleVariants
  /\ IdleRetry
  /\ IdleBatches
  /\ IdleSteps
  /\ IdleReoptimize
  /\ IdleNormalize
  /\ IdlePages
  /\ IdleTenants
  /\ urlPc = "call"
  /\ urlScheme \in UrlSchemes
  /\ urlStore \in UrlStores
  /\ urlPath \in UrlPaths
  /\ urlDefault \in DefaultTypes
  /\ urlResult = NULL

ParseShopifyUrlCall ==
  /\ urlPc = "call"
  /\ urlResult' = parseShopifyUrl(urlInput, urlDefault)
  /\ urlPc' = "done"
  /\ UNCHANGED <<urlScheme, urlStore, urlPath, urlDefault, exceptUrl>>

NextUrl == ParseShopifyUrlCall

SpecUrl == InitUrl /\ [][NextUrl]_vars

\* C7 as stated: https://S/collections/C/products/P gives
\* {store: S, handle: C, type: "collection"} for either default type.
C7_CollectionWinsStoreVerbatim ==
  \A c \in UrlHandles, p \in UrlHandles :
    (urlPc = "done" /\ urlScheme = HttpsPrefix /\ urlPath = CollectionProductPath(c, p)) =>
      urlResult = [ok |-> TRUE, store |-> urlStore, handle |-> c, type |-> "collection"]

\* C7 amended: https://S/collections/C/products/P gives the lower-cased host
\* name of S as the store, C as the handle and type "collection", for either
\* default type.
C7_CollectionWins ==
  \A c \in UrlHandles, p \in UrlHandles :
    (urlPc = "done" /\ urlScheme = HttpsPrefix /\ urlPath = CollectionProductPath(c, p)) =>
      urlResult = [ok |-> TRUE, store |-> LowerAtoms(urlStore), handle |-> c,
                   type |-> "collection"]

C7_Witness ==
  /\ urlPc = "done"
  /\ urlScheme = HttpsPrefix
  /\ urlStore = <<"Shop", ".com">>
  /\ urlPath = CollectionProductPath(<<"c">>, <<"p">>)
  /\ urlDefault = "product"
  /\ urlResult.type = "collection"

\* C8: a URL without a scheme parses to the same outcome as the same URL
\* with "https://" put in front, for every default type.
C8_SchemeLessSameAsHttps ==
  (urlPc = "done" /\ urlScheme = <<>>) =>
     urlResult = parseShopifyUrl(HttpsPrefix \o urlInput, urlDefault)

(***************************************************************************)
(* Specification SpecCollection: one call of scrapeCollectionUrl against a *)
(* storefront holding colTotal products (numbered 1..colTotal) that it     *)
(* serves colServerPage to a page.                                         *)
(***************************************************************************)
PageLimit == 250

ServerPageSizes == {PageLimit, 100}

Min(a, b) == IF a < b THEN a ELSE b

\* data.products of page p
ServerPage(total, size, p) ==
  LET first == (p - 1) * size
      n == IF total > first THEN Min(size, total - first) ELSE 0
  IN [k \in 1..n |-> first + k]

\* scraper.server.ts 144
ShortPageInclusive(n) == n <= PageLimit

ShortPage(n) == n < PageLimit

InitCollection ==
  /\ IdleStrip
  /\ IdleOptimize
  /\ IdleUrl
  /\ IdleScrape
  /\ IdlePricing
  /\ IdlePublish
  /\ IdleKey
  /\ IdleVariants
  /\ IdleRetry
  /\ IdleBatches
  /\ IdleSteps
  /\ IdleReoptimize
  /\ IdleNormalize
  /\ IdlePages
  /\ IdleTenants
  /\ colPc = "fetch"
  /\ colTotal \in 0..MaxCollection
  /\ colServerPage \in ServerPageSizes
  /\ colPage = 1
  /\ colProducts = <<>>
  /\ colRequests = 0

\* scraper.server.ts 117-146: a page that answers 2xx
FetchPage ==
  /\ colPc = "fetch"
  /\ LET data == ServerPage(colTotal, colServerPage, colPage)
     IN /\ colRequests' = colRequests + 1
        /\ IF Len(data) = 0
           THEN UNCHANGED <<colProducts, colPage>> /\ colPc' = "done"
           ELSE /\ colProducts' = colProducts \o data
                /\ IF ShortPage(Len(data))
                   THEN colPc' = "done" /\ colPage' = colPage
                   ELSE colPc' = "fetch" /\ colPage' = colPage + 1
  /\ UNCHANGED <<colTotal, colServerPage, exceptCollection>>

\* scraper.server.ts 131-133: a page that answers non-2xx
FetchPageError ==
  /\ colPc = "fetch"
  /\ colRequests' = colRequests + 1
  /\ colPc' = "failed"
  /\ UNCHANGED <<colTotal, colServerPage, colPage, colProducts, exceptCollection>>

NextCollection == FetchPage \/ FetchPageError

SpecCollection == InitCollection /\ [][NextCollection]_vars /\ WF_vars(NextCollection)

RECURSIVE PagesUpTo(_, _, _)
PagesUpTo(total, size, p) ==
  IF p = 0 THEN <<>> ELSE PagesUpTo(total, size, p - 1) \o ServerPage(total, size, p)

C6_Returned ==
  colPc = "done" =>
    /\ colRequests >= 1
    /\ colProducts = PagesUpTo(colTotal, colServerPage, colRequests)
    /\ Len(ServerPage(colTotal, colServerPage, colRequests)) < PageLimit
    /\ \A p \in 1..(colRequests - 1) : Len(ServerPage(colTotal, colServerPage, p)) = PageLimit
    /\ (colTotal = PageLimit /\ colServerPage = PageLimit) =>
          colRequests = 2 /\ colProducts = [k \in 1..PageLimit |-> k]

\* C6: scrapeCollectionUrl terminates; it reads pages 1, 2, ... in order,
\* stops at the first page that is empty or shorter than 250 and returns the
\* products of the pages read in page order; exactly 250 products cost 2
\* requests and return the 250 products of page 1.
C6_CollectionTerminates ==
  /\ [](C6_Returned)
  /\ <>(colPc \in {"done", "failed"})
  /\ [][colPage' \in {colPage, colPage + 1} /\ colRequests' = colRequests + 1]_colVars

C6_Witness ==
  /\ colPc = "done"
  /\ colTotal = PageLimit
  /\ colServerPage = PageLimit
  /\ colRequests = 2
  /\ Len(colProducts) = PageLimit

(***************************************************************************)
(* Specification SpecScrape: the scrape action over a list of URLs         *)
(***************************************************************************)
ScrapeUrls ==
  { <<"shop", ".com", "/", "products", "/", "p">>,
    <<"Shop", ".com", "/", "collections", "/", "c">>,
    HttpsPrefix \o <<"http", "shop", ".com", "/", "products", "/", "p">>,
    <<"http", "shop", ".com", "/", "p">>,
    <<"shop", ".com", "/", "c">>,
    <<" ">> }

ExternalIds == {1, 2}

ScrapedTitles == {"t1", "t2"}

\* normalizeProduct: the fields deduplication reads, and the title
ScrapedFrom(store) ==
  [sourceStore : {store}, externalId : ExternalIds, title : ScrapedTitles]

\* decimal digits of a number, as `${n}` prints it
RECURSIVE ToDigits(_)
ToDigits(n) ==
  LET digit == <<"0", "1", "2", "3", "4", "5", "6", "7", "8", "9">>[(n % 10) + 1]
  IN IF n < 10 THEN <<digit>> ELSE ToDigits(n \div 10) \o <<digit>>

\* scraper.server.ts 85: `${product.sourceStore}:${product.externalId}`
KeyOf(product) == product.sourceStore \o <<":">> \o ToDigits(product.externalId)

\* seen.set(key, product): a new key is appended, a known key keeps its place
MapSet(seen, key, product) ==
  IF \E k \in 1..Len(seen) : seen[k].key = key
  THEN [k \in 1..Len(seen) |->
          IF seen[k].key = key THEN [key |-> key, value |-> product] ELSE seen[k]]
  ELSE Append(seen, [key |-> key, value |-> product])

MapHas(seen, key) == \E k \in 1..Len(seen) : seen[k].key = key

RECURSIVE DedupLoopKeepLast(_, _)
DedupLoopKeepLast(products, seen) ==
  IF products = <<>> THEN seen
  ELSE DedupLoopKeepLast(Tail(products), MapSet(seen, KeyOf(Head(products)), Head(products)))

\* scraper.server.ts 84-89
RECURSIVE DedupLoop(_, _)
DedupLoop(products, seen) ==
  IF products = <<>> THEN seen
  ELSE LET key == KeyOf(Head(products))
       IN DedupLoop(Tail(products),
                    IF ~MapHas(seen, key) THEN MapSet(seen, key, Head(products)) ELSE seen)

\* scraper.server.ts 82-91
deduplicateProducts(products) ==
  LET seen == DedupLoop(products, <<>>)
  IN [k \in 1..Len(seen) |-> seen[k].value]

\* what the fetch of one parsed URL can give: scrapeProductUrl one product,
\* scrapeCollectionUrl a list, either of them an HTTP error
FetchOutcomes(parsed) ==
  IF parsed.type = "product"
  THEN {[ok |-> TRUE, products |-> <<q>>] : q \in ScrapedFrom(parsed.store)}
       \cup {[ok |-> FALSE, products |-> <<>>]}
  ELSE {[ok |-> TRUE, products |-> l] : l \in SeqsUpTo(ScrapedFrom(parsed.store), 2)}
       \cup {[ok |-> FALSE, products |-> <<>>]}

IsBlank(url) == Trim(url) = <<>>

InitScrape ==
  /\ IdleStrip
  /\ IdleOptimize
  /\ IdleUrl
  /\ IdleCollection
  /\ IdlePricing
  /\ IdlePublish
  /\ IdleKey
  /\ IdleVariants
  /\ IdleRetry
  /\ IdleBatches
  /\ IdleSteps
  /\ IdleReoptimize
  /\ IdleNormalize
  /\ IdlePages
  /\ IdleTenants
  /\ scPc = "start"
  /\ scUrls \in SeqsUpTo(ScrapeUrls, MaxUrls)
  /\ scType \in DefaultTypes
  /\ scIdx = 0
  /\ scResults = <<>>
  /\ scErrors = <<>>
  /\ scFetched = <<>>
  /\ scResponse = NULL
  /\ scInput = scUrls
  /\ scOutcomes = <<>>

\* app.api.scrape.tsx 14-18: split, drop the blank lines
ScrapeStart ==
  /\ scPc = "start"
  /\ scUrls' = LET nonBlank(u) == ~IsBlank(u) IN SelectSeq(scUrls, nonBlank)
  /\ scIdx' = 1
  /\ scPc' = "loop"
  /\ UNCHANGED <<scType, scResults, scErrors, scFetched, scResponse, scInput, scOutcomes,
                 exceptScrape>>

\* app.api.scrape.tsx 20-37: one URL that parses and whose fetch succeeds
ScrapeUrlOk ==
  /\ scPc = "loop"
  /\ scIdx <= Len(scUrls)
  /\ LET parsed == parseShopifyUrl(Trim(scUrls[scIdx]), scType)
     IN /\ parsed.ok
        /\ \E r \in FetchOutcomes(parsed) :
             /\ r.ok
             /\ scResults' = scResults \o r.products
             /\ scFetched' = Append(scFetched, r.products)
  /\ scOutcomes' = Append(scOutcomes, "ok")
  /\ scIdx' = scIdx + 1
  /\ UNCHANGED <<scPc, scUrls, scType, scErrors, scResponse, scInput, exceptScrape>>

\* a failing URL that ends the loop
ScrapeUrlErrorAbort ==
  /\ scPc = "loop"
  /\ scIdx <= Len(scUrls)
  /\ LET parsed == parseShopifyUrl(Trim(scUrls[scIdx]), scType)
     IN \/ ~parsed.ok
        \/ parsed.ok /\ \E r \in FetchOutcomes(parsed) : ~r.ok
  /\ scErrors' = Append(scErrors, [url |-> Trim(scUrls[scIdx])])
  /\ scFetched' = Append(scFetched, <<>>)
  /\ scOutcomes' = Append(scOutcomes, "error")
  /\ scIdx' = Len(scUrls) + 1
  /\ UNCHANGED <<scPc, scUrls, scType, scResults, scResponse, scInput, exceptScrape>>

\* app.api.scrape.tsx 34-36: the URL does not parse, or its fetch fails
ScrapeUrlError ==
  /\ scPc = "loop"
  /\ scIdx <= Len(scUrls)
  /\ LET parsed == parseShopifyUrl(Trim(scUrls[scIdx]), scType)
     IN \/ ~parsed.ok
        \/ parsed.ok /\ \E r \in FetchOutcomes(parsed) : ~r.ok
  /\ scErrors' = Append(scErrors, [url |-> Trim(scUrls[scIdx])])
  /\ scFetched' = Append(scFetched, <<>>)
  /\ scOutcomes' = Append(scOutcomes, "error")
  /\ scIdx' = scIdx + 1
  /\ UNCHANGED <<scPc, scUrls, scType, scResults, scResponse, scInput, exceptScrape>>

\* app.api.scrape.tsx 39-41
ScrapeRespond ==
  /\ scPc = "loop"
  /\ scIdx > Len(scUrls)
  /\ scResponse' = [products |-> deduplicateProducts(scResults), errors |-> scErrors]
  /\ scPc' = "done"
  /\ UNCHANGED <<scUrls, scType, scIdx, scResults, scErrors, scFetched, scInput,
                 scOutcomes, exceptScrape>>

NextScrape == ScrapeStart \/ ScrapeUrlOk \/ ScrapeUrlError \/ ScrapeRespond

SpecScrape == InitScrape /\ [][NextScrape]_vars

RECURSIVE Flatten(_)
Flatten(lists) == IF lists = <<>> THEN <<>> ELSE Head(lists) \o Flatten(Tail(lists))

SamePair(q1, q2) == q1.sourceStore = q2.sourceStore /\ q1.externalId = q2.externalId

\* the products of a list that no earlier product shares its pair with, in order
RECURSIVE FirstOfEachPair(_, _)
FirstOfEachPair(products, i) ==
  IF i > Len(products) THEN <<>>
  ELSE (IF \E j \in 1..(i - 1) : SamePair(products[j], products[i])
        THEN <<>> ELSE <<products[i]>>) \o FirstOfEachPair(products, i + 1)

\* C5: the deduplicated list is the input with, for every
\* (sourceStore, externalId) pair, only its first product kept, in input
\* order: no pair twice, no pair lost; the scrape action applies it to the
\* concatenation of all URLs' results in URL order.
C5_FirstSeenWins ==
  scPc = "done" =>
    LET input == Flatten(scFetched)
        out == scResponse.products
    IN /\ scResults = input
       /\ out = FirstOfEachPair(input, 1)
       /\ \A i, j \in 1..Len(out) : SamePair(out[i], out[j]) => i = j
       /\ \A i \in 1..Len(input) : \E j \in 1..Len(out) : SamePair(input[i], out[j])

C5_Witness ==
  /\ scPc = "done"
  /\ Len(scResults) = 3
  /\ SamePair(scResults[1], scResults[3])
  /\ scResults[1].title # scResults[3].title
  /\ ~SamePair(scResults[1], scResults[2])
  /\ scResponse.products = <<scResults[1], scResults[2]>>

\* the non-blank lines of the urls field, in input order
NonBlankUrls(urls) == LET nonBlank(u) == ~IsBlank(u) IN SelectSeq(urls, nonBlank)

\* {url} entries of the first n URLs whose outcome is an error, in order
RECURSIVE ErrorsOf(_, _, _)
ErrorsOf(urls, outcomes, n) ==
  IF n = 0 THEN <<>>
  ELSE IF outcomes[n] = "error"
       THEN Append(ErrorsOf(urls, outcomes, n - 1), [url |-> Trim(urls[n])])
       ELSE ErrorsOf(urls, outcomes, n - 1)

\* C15: every non-blank input URL is processed, in input order, whatever
\* happens to the others: a URL that does not parse or whose fetch fails adds
\* exactly one {url, error} entry and no product, a URL that succeeds adds its
\* products, and the response carries the deduplicated products and the errors.
C15_EveryUrlProcessed ==
  (scPc \in {"loop", "done"}) =>
    /\ scUrls = NonBlankUrls(scInput)
    /\ Len(scOutcomes) = scIdx - 1
    /\ Len(scFetched) = Len(scOutcomes)
    /\ scErrors = ErrorsOf(scUrls, scOutcomes, Len(scOutcomes))
    /\ scResults = Flatten(scFetched)
    /\ \A k \in 1..Len(scOutcomes) :
          /\ scOutcomes[k] = "error" => scFetched[k] = <<>>
          /\ ~parseShopifyUrl(Trim(scUrls[k]), scType).ok => scOutcomes[k] = "error"
    /\ scPc = "done" =>
          /\ Len(scOutcomes) = Len(scUrls)
          /\ scResponse.errors = scErrors
          /\ scResponse.products = deduplicateProducts(scResults)

C15_Witness ==
  /\ scPc = "done"
  /\ Len(scInput) = 2
  /\ scOutcomes = <<"error", "ok">>
  /\ ~parseShopifyUrl(Trim(scUrls[1]), scType).ok
  /\ Len(scResponse.errors) = 1
  /\ Len(scResponse.products) = 1

(***************************************************************************)
(* Specification SpecPricing: applyRounding and applyPricing.  A number is *)
(* [nan, v] with v in thousandths; a price string is the number it prints. *)
(***************************************************************************)
Scale == 1000

Num(v) == [kind |-> "num", v |-> v]

NaN == [kind |-> "nan", v |-> 0]

\* a null compareAtPrice
NoPrice == [kind |-> "null", v |-> 0]

IsNaN(x) == x.kind = "nan"

FloorNearest(v) == ((v + (Scale \div 2)) \div Scale) * Scale

\* Math.floor of a positive amount
Floor(v) == (v \div Scale) * Scale

\* Math.round
MathRound(v) == ((v + (Scale \div 2)) \div Scale) * Scale

\* the fixed suffixes of the switch, in thousandths
FixedSuffixes == {".99", ".95", ".90", ".50", ".49"}

SuffixValue(rounding) ==
  CASE rounding = ".99" -> 990
    [] rounding = ".95" -> 950
    [] rounding = ".90" -> 900
    [] rounding = ".50" -> 500
    [] rounding = ".49" -> 490

CustomRoundings == {".75", "0.25", ".999", "1.5", "-0.2", "abc"}

RoundingValues == FixedSuffixes \cup {".00"} \cup CustomRoundings

\* parseFloat of a price_rounding string
ParseFloatRounding(rounding) ==
  CASE rounding = ".75" -> Num(750)
    [] rounding = "0.25" -> Num(250)
    [] rounding = "1.5" -> Num(1500)
    [] rounding = "-0.2" -> Num(-200)
    [] rounding = ".999" -> Num(999)
    [] rounding = ".00" -> Num(0)
    [] rounding \in FixedSuffixes -> Num(SuffixValue(rounding))
    [] OTHER -> NaN

\* applyRounding that rounds before it tests the sign
applyRoundingNoGuard(price, rounding) ==
  IF IsNaN(price) THEN NaN
  ELSE IF rounding \in FixedSuffixes THEN Num(Floor(price.v) + SuffixValue(rounding))
  ELSE IF rounding = ".00" THEN Num(MathRound(price.v))
  ELSE LET decimal == ParseFloatRounding(rounding)
       IN IF ~IsNaN(decimal) /\ decimal.v >= 0 /\ decimal.v < Scale
          THEN Num(Floor(price.v) + decimal.v)
          ELSE price

\* pricing.server.ts 72-99
applyRounding(price, rounding) ==
  IF IsNaN(price)
  THEN NaN
  ELSE IF price.v <= 0 THEN Num(0)
  ELSE IF rounding \in FixedSuffixes THEN Num(Floor(price.v) + SuffixValue(rounding))
  ELSE IF rounding = ".00" THEN Num(MathRound(price.v))
  ELSE LET decimal == ParseFloatRounding(rounding)
       IN IF ~IsNaN(decimal) /\ decimal.v >= 0 /\ decimal.v < Scale
          THEN Num(Floor(price.v) + decimal.v)
          ELSE price

\* pricing.server.ts 4-15, in hundredths
ExchangeRate(currency) ==
  CASE currency = "USD" -> 100
    [] currency = "EUR" -> 92
    [] currency = "GBP" -> 79
    [] OTHER -> 100

\* pricing.server.ts 59-70, to the resolution of a thousandth
convertCurrency(amount, fromCurrency, toCurrency) ==
  IF fromCurrency = toCurrency \/ IsNaN(amount) THEN amount
  ELSE Num((amount.v * ExchangeRate(toCurrency)) \div ExchangeRate(fromCurrency))

\* multiplication by a multiplier given in hundredths
Times(amount, multiplier) ==
  IF IsNaN(amount) THEN NaN ELSE Num((amount.v * multiplier) \div 100)

\* Number.prototype.toFixed(2) of a non-negative amount, as a price string
ToFixed2(amount) ==
  IF IsNaN(amount) THEN NaN ELSE Num(((amount.v + 5) \div 10) * 10)

\* applyPricing that recomputes the compare-at price also in manual mode
applyPricingIgnoresManual(variant, settings, sourceCurrency, targetCurrency) ==
  LET price0 == variant.price
      compare0 == variant.compareAtPrice
      price1 == IF sourceCurrency # targetCurrency
                THEN convertCurrency(price0, sourceCurrency, targetCurrency) ELSE price0
      compare1 == IF sourceCurrency # targetCurrency /\ compare0 # NoPrice
                  THEN convertCurrency(compare0, sourceCurrency, targetCurrency) ELSE compare0
      price2 == IF ~settings.retail_price_manual /\ settings.retail_price_multiplier # 100
                THEN Times(price1, settings.retail_price_multiplier) ELSE price1
      compare2 == IF settings.compare_at_price_multiplier > 0
                  THEN Times(price2, settings.compare_at_price_multiplier) ELSE compare1
      price3 == applyRounding(price2, settings.price_rounding)
      positive(c) == c # NoPrice /\ ~IsNaN(c) /\ c.v > 0
      compare3 == IF positive(compare2)
                  THEN applyRounding(compare2, settings.price_rounding) ELSE compare2
  IN [price |-> ToFixed2(price3),
      compareAtPrice |-> IF positive(compare3) THEN ToFixed2(compare3) ELSE NoPrice]

\* pricing.server.ts 101-147: the price and compareAtPrice of the result
applyPricing(variant, settings, sourceCurrency, targetCurrency) ==
  LET price0 == variant.price
      compare0 == variant.compareAtPrice
      price1 == IF sourceCurrency # targetCurrency
                THEN convertCurrency(price0, sourceCurrency, targetCurrency) ELSE price0
      compare1 == IF sourceCurrency # targetCurrency /\ compare0 # NoPrice
                  THEN convertCurrency(compare0, sourceCurrency, targetCurrency) ELSE compare0
      price2 == IF ~settings.retail_price_manual /\ settings.retail_price_multiplier # 100
                THEN Times(price1, settings.retail_price_multiplier) ELSE price1
      compare2 == IF ~settings.compare_at_price_manual /\ settings.compare_at_price_multiplier > 0
                  THEN Times(price2, settings.compare_at_price_multiplier) ELSE compare1
      price3 == applyRounding(price2, settings.price_rounding)
      positive(c) == c # NoPrice /\ ~IsNaN(c) /\ c.v > 0
      compare3 == IF positive(compare2)
                  THEN applyRounding(compare2, settings.price_rounding) ELSE compare2
  IN [price |-> ToFixed2(price3),
      compareAtPrice |-> IF positive(compare3) THEN ToFixed2(compare3) ELSE NoPrice]

PriceFractions == {0, 5, 490, 500, 950, 990, 995, 999}

PriceNumbers == {Num(u * Scale + f) : u \in (0 - 1)..MaxPrice, f \in PriceFractions}
                \cup {Num(0 - 5 * Scale)}

\* parseFloat(variant.price): a decimal string or a non-numeric one
PriceStrings == PriceNumbers \cup {NaN}

\* variant.compareAtPrice: null, a decimal string or a non-numeric one
CompareAtStrings == {NoPrice, Num(Scale + 500), NaN}

PricingSettings ==
  [retail_price_multiplier : {100, 150}, retail_price_manual : BOOLEAN,
   compare_at_price_multiplier : {0, 200}, compare_at_price_manual : BOOLEAN,
   price_rounding : RoundingValues]

CurrencyPairs == {<<"USD", "USD">>, <<"USD", "EUR">>}

InitPricing ==
  /\ IdleStrip
  /\ IdleOptimize
  /\ IdleUrl
  /\ IdleCollection
  /\ IdleScrape
  /\ IdlePublish
  /\ IdleKey
  /\ IdleVariants
  /\ IdleRetry
  /\ IdleBatches
  /\ IdleSteps
  /\ IdleReoptimize
  /\ IdleNormalize
  /\ IdlePages
  /\ IdleTenants
  /\ prPc = "round"
  /\ prPrice \in PriceStrings
  /\ prCompareAt \in CompareAtStrings
  /\ prSettings \in PricingSettings
  /\ prCurrencies \in CurrencyPairs
  /\ prRounded = NoPrice
  /\ prResult = [price |-> NoPrice, compareAtPrice |-> NoPrice]
  /\ prAgain = [price |-> NoPrice, compareAtPrice |-> NoPrice]

\* applyRounding(price, settings.price_rounding) on the parsed price
ApplyRoundingCall ==
  /\ prPc = "round"
  /\ prRounded' = applyRounding(prPrice, prSettings.price_rounding)
  /\ prPc' = "price"
  /\ UNCHANGED <<prPrice, prCompareAt, prSettings, prCurrencies, prResult, prAgain,
                 exceptPricing>>

\* applyPricing(variant, settings, sourceCurrency, targetCurrency)
ApplyPricingCall ==
  /\ prPc = "price"
  /\ prResult' = applyPricing([price |-> prPrice, compareAtPrice |-> prCompareAt],
                              prSettings, prCurrencies[1], prCurrencies[2])
  /\ prPc' = "done"
  /\ UNCHANGED <<prPrice, prCompareAt, prSettings, prCurrencies, prRounded, prAgain,
                 exceptPricing>>

\* parseFloat of a price string applyPricing produced: "12.34" or "NaN"
ParsePublished(published) == published

\* applyPricing on the variant the first call returned
ApplyPricingAgain ==
  /\ prPc = "done"
  /\ prAgain' = applyPricing([price |-> ParsePublished(prResult.price),
                              compareAtPrice |-> ParsePublished(prResult.compareAtPrice)],
                             prSettings, prCurrencies[1], prCurrencies[2])
  /\ prPc' = "twice"
  /\ UNCHANGED <<prPrice, prCompareAt, prSettings, prCurrencies, prRounded, prResult,
                 exceptPricing>>

NextPricing == ApplyRoundingCall \/ ApplyPricingCall \/ ApplyPricingAgain

SpecPricing == InitPricing /\ [][NextPricing]_vars

Fraction(v) == v % Scale

Whole(v) == v - Fraction(v)

\* C9: applyRounding gives 0 for every price <= 0 under every policy, and
\* floor(price) + suffix for every price > 0 under a fixed suffix policy.
C9_RoundingFloorPlusSuffix ==
  (prPc # "round" /\ ~IsNaN(prPrice)) =>
    /\ prPrice.v <= 0 => prRounded = Num(0)
    /\ (prPrice.v > 0 /\ prSettings.price_rounding \in FixedSuffixes) =>
         /\ ~IsNaN(prRounded)
         /\ Whole(prRounded.v) = Whole(prPrice.v)
         /\ Fraction(prRounded.v) = SuffixValue(prSettings.price_rounding)
    /\ (prPrice.v > 0 /\ prSettings.price_rounding = ".95") =>
         prRounded.v = Whole(prPrice.v) + 950

C9_Witness ==
  /\ prPc = "done"
  /\ prPrice = Num(0 - 5 * Scale)
  /\ prSettings.price_rounding = ".99"
  /\ prRounded = Num(0)

\* the fraction a price_rounding value configures, read as a decimal
ConfiguredFraction(rounding) ==
  CASE rounding = ".99" -> 990
    [] rounding = ".95" -> 950
    [] rounding = ".90" -> 900
    [] rounding = ".50" -> 500
    [] rounding = ".49" -> 490
    [] rounding = ".00" -> 0
    [] rounding = ".75" -> 750
    [] rounding = "0.25" -> 250
    [] rounding = "1.5" -> 500
    [] rounding = "-0.2" -> 200
    [] rounding = ".999" -> 999
    [] OTHER -> 0

InUnitInterval(rounding) ==
  rounding \in {".99", ".95", ".90", ".50", ".49", ".00", ".75", "0.25", ".999"}

TwoDecimals(rounding) == rounding \in {".99", ".95", ".90", ".50", ".49", ".00", ".75", "0.25"}

\* C10 as stated: for every price_rounding value and every input price the
\* fractional part of the rounded price, and of the price applyPricing
\* publishes, is the configured value.
C10_FractionAlwaysConfigured ==
  /\ (prPc # "round" /\ ~IsNaN(prPrice)) =>
        /\ ~IsNaN(prRounded)
        /\ Fraction(prRounded.v) = ConfiguredFraction(prSettings.price_rounding)
  /\ (prPc = "done" /\ ~IsNaN(prPrice)) =>
        /\ ~IsNaN(prResult.price)
        /\ Fraction(prResult.price.v) = ConfiguredFraction(prSettings.price_rounding)

\* C10 amended: for every price > 0 and every price_rounding value that is a
\* fixed suffix, ".00", or parses to a decimal in [0,1), the fractional part
\* of the rounded price is the configured value (floor(price) + fraction, or
\* the nearest integer for ".00"), and so is that of every positive price
\* and every compare-at price applyPricing publishes when the value has at
\* most two decimals; a price <= 0 gives 0 and any other price_rounding
\* value leaves the price unchanged.
C10_FractionWhenPositive ==
  /\ (prPc # "round" /\ ~IsNaN(prPrice)) =>
        LET rounding == prSettings.price_rounding
        IN /\ (prPrice.v > 0 /\ InUnitInterval(rounding)) =>
                /\ Fraction(prRounded.v) = ConfiguredFraction(rounding)
                /\ rounding # ".00" => Whole(prRounded.v) = Whole(prPrice.v)
           /\ prPrice.v <= 0 => prRounded.v = 0
           /\ (prPrice.v > 0 /\ ~InUnitInterval(rounding)) => prRounded = prPrice
  /\ (prPc = "done" /\ TwoDecimals(prSettings.price_rounding)) =>
        /\ (~IsNaN(prResult.price) /\ prResult.price.v > 0) =>
              Fraction(prResult.price.v) = ConfiguredFraction(prSettings.price_rounding)
        /\ prResult.compareAtPrice # NoPrice =>
              Fraction(prResult.compareAtPrice.v) = ConfiguredFraction(prSettings.price_rounding)

C10_Witness ==
  /\ prPc = "done"
  /\ prPrice = Num(2 * Scale + 5)
  /\ prSettings.price_rounding = ".75"
  /\ prRounded = Num(2 * Scale + 750)
  /\ prResult.compareAtPrice # NoPrice

\* the variant with the unparseable price strings read as 0
InvalidAsZero(variant) ==
  [price |-> IF IsNaN(variant.price) THEN Num(0) ELSE variant.price,
   compareAtPrice |-> IF IsNaN(variant.compareAtPrice) THEN Num(0)
                      ELSE variant.compareAtPrice]

\* C11: applyPricing returns for every variant, settings and currency pair,
\* a variant with an invalid price or compare-at price string is priced as if
\* that value were 0, and the output price is always a two-decimal number.
C11_InvalidPricedAsZero ==
  prPc \in {"done", "twice"} =>
    /\ ~IsNaN(prResult.price)
    /\ prResult.price.v % 10 = 0
    /\ prResult = applyPricing(InvalidAsZero([price |-> prPrice,
                                               compareAtPrice |-> prCompareAt]),
                               prSettings, prCurrencies[1], prCurrencies[2])

\* C12: with both manual flags set and equal currencies, applying
\* applyPricing to its own result changes neither price nor compare-at price,
\* for every variant and every rounding policy.
C12_PricingIdempotent ==
  (/\ prPc = "twice"
   /\ prSettings.retail_price_manual
   /\ prSettings.compare_at_price_manual
   /\ prCurrencies[1] = prCurrencies[2]) =>
      /\ prAgain.price = prResult.price
      /\ prAgain.compareAtPrice = prResult.compareAtPrice

(***************************************************************************)
(* Publish (upload) action: one import batch, one pass over the products   *)
(***************************************************************************)
\* a submitted product, by what the publisher looks at: its image count
ProductKinds == {[images |-> 0], [images |-> 1]}

CollectionIdLists == {<<>>, <<"c1">>, <<"c1", "c2">>}

\* createdProduct.id of the i-th submitted product
ProductId(i) == i

\* import_batches.id of the inserted row
BatchId == 1

\* unixepoch() when the batch row is inserted
Epoch == 1

\* seconds between the insert and the final update
ElapsedTimes == {0, 1}

PublishStages ==
  {"insert", "create", "variant", "media", "count", "collections", "update", "done"}

InitPublish ==
  /\ IdleStrip
  /\ IdleOptimize
  /\ IdleUrl
  /\ IdleCollection
  /\ IdleScrape
  /\ IdlePricing
  /\ IdleKey
  /\ IdleVariants
  /\ IdleRetry
  /\ IdleBatches
  /\ IdleSteps
  /\ IdleReoptimize
  /\ IdleNormalize
  /\ IdlePages
  /\ IdleTenants
  /\ pubPc = "insert"
  /\ pubProducts \in SeqsUpTo(ProductKinds, MaxProducts)
  /\ pubCollectionIds \in CollectionIdLists
  /\ pubI = 0
  /\ pubImported = 0
  /\ pubFailed = 0
  /\ pubCreatedProductIds = <<>>
  /\ pubOutcomes = <<>>
  /\ pubLogged = 0
  /\ pubBatch = NoBatch
  /\ pubColIdx = 0
  /\ pubAssigned = {}
  /\ pubResponse = NoResponse
  /\ pubBatchWrites = <<>>
  /\ pubCreateCalls = <<>>
  /\ pubCollectionCalls = <<>>
  /\ pubProductCalls = <<>>

\* batch row inserted as 'processing', counters started at 0
InsertBatch ==
  /\ pubPc = "insert"
  /\ pubBatch' = [status |-> "processing", total_products |-> Len(pubProducts),
                  imported_products |-> 0, failed_products |-> 0,
                  created_at |-> Epoch, completed_at |-> NullTime]
  /\ pubBatchWrites' = Append(pubBatchWrites, pubBatch')
  /\ pubImported' = 0
  /\ pubFailed' = 0
  /\ pubCreatedProductIds' = <<>>
  /\ pubI' = 1
  /\ pubPc' = IF Len(pubProducts) = 0 THEN "collections" ELSE "create"
  /\ UNCHANGED <<pubProducts, pubCollectionIds, pubOutcomes, pubLogged, pubColIdx,
                 pubAssigned, pubResponse,
                 pubCreateCalls, pubCollectionCalls, pubProductCalls>>
  /\ UNCHANGED exceptPublish

\* the for loop's step to the next product, or out of the loop
LoopNext == IF pubI < Len(pubProducts) THEN "create" ELSE "collections"

\* stage after the variant update: media only when the product has images
AfterVariant == IF pubProducts[pubI].images > 0 THEN "media" ELSE "count"

\* productCreate answered with user errors and the run stopped there
CreateProductUserErrorsAbort ==
  /\ pubPc = "create"
  /\ pubOutcomes' = Append(pubOutcomes, "userErrors")
  /\ pubCreateCalls' = Append(pubCreateCalls, pubI)
  /\ pubFailed' = pubFailed + 1
  /\ pubLogged' = pubLogged + 1
  /\ pubPc' = "collections"
  /\ pubProductCalls' = <<>>
  /\ UNCHANGED <<pubProducts, pubCollectionIds, pubI, pubImported, pubCreatedProductIds,
                 pubBatch, pubColIdx, pubAssigned, pubResponse,
                 pubBatchWrites, pubCollectionCalls>>
  /\ UNCHANGED exceptPublish

\* productCreate answered with user errors and the call is issued again
CreateProductUserErrorsRetry ==
  /\ pubPc = "create"
  /\ Len(pubCreateCalls) < 2 * MaxProducts
  /\ pubCreateCalls' = Append(pubCreateCalls, pubI)
  /\ pubLogged' = pubLogged + 1
  /\ UNCHANGED <<pubPc, pubProducts, pubCollectionIds, pubI, pubImported, pubFailed,
                 pubCreatedProductIds, pubOutcomes, pubBatch, pubColIdx, pubAssigned,
                 pubResponse, pubBatchWrites, pubCollectionCalls, pubProductCalls>>
  /\ UNCHANGED exceptPublish

\* productCreate returned a product and no user errors
CreateProductOk ==
  /\ pubPc = "create"
  /\ pubOutcomes' = Append(pubOutcomes, "ok")
  /\ pubCreateCalls' = Append(pubCreateCalls, pubI)
  /\ \E edges \in 0..1 :
       pubPc' = IF edges > 0 THEN "variant" ELSE AfterVariant
  /\ pubProductCalls' = <<"productCreate">>
  /\ UNCHANGED <<pubProducts, pubCollectionIds, pubI, pubImported, pubFailed,
                 pubCreatedProductIds, pubLogged, pubBatch, pubColIdx, pubAssigned,
                 pubResponse,
                 pubBatchWrites, pubCollectionCalls>>
  /\ UNCHANGED exceptPublish

\* productCreate returned user errors (or no product): else branch, failed++
CreateProductUserErrors ==
  /\ pubPc = "create"
  /\ pubOutcomes' = Append(pubOutcomes, "userErrors")
  /\ pubCreateCalls' = Append(pubCreateCalls, pubI)
  /\ pubFailed' = pubFailed + 1
  /\ pubLogged' = pubLogged + 1
  /\ pubI' = pubI + 1
  /\ pubPc' = LoopNext
  /\ pubProductCalls' = <<>>
  /\ UNCHANGED <<pubProducts, pubCollectionIds, pubImported, pubCreatedProductIds,
                 pubBatch, pubColIdx, pubAssigned, pubResponse,
                 pubBatchWrites, pubCollectionCalls>>
  /\ UNCHANGED exceptPublish

\* the productCreate call threw: the product's catch block, failed++
CreateProductThrows ==
  /\ pubPc = "create"
  /\ pubOutcomes' = Append(pubOutcomes, "throws")
  /\ pubCreateCalls' = Append(pubCreateCalls, pubI)
  /\ pubFailed' = pubFailed + 1
  /\ pubLogged' = pubLogged + 1
  /\ pubI' = pubI + 1
  /\ pubPc' = LoopNext
  /\ pubProductCalls' = <<>>
  /\ UNCHANGED <<pubProducts, pubCollectionIds, pubImported, pubCreatedProductIds,
                 pubBatch, pubColIdx, pubAssigned, pubResponse,
                 pubBatchWrites, pubCollectionCalls>>
  /\ UNCHANGED exceptPublish

\* default-variant update in its own try/catch: errors are logged only
UpdateVariant ==
  /\ pubPc = "variant"
  /\ \E outcome \in {"ok", "userErrors", "throws"} :
       pubLogged' = IF outcome = "ok" THEN pubLogged ELSE pubLogged + 1
  /\ pubPc' = AfterVariant
  /\ pubProductCalls' = Append(pubProductCalls, "productVariantsBulkUpdate")
  /\ UNCHANGED <<pubProducts, pubCollectionIds, pubI, pubImported, pubFailed,
                 pubCreatedProductIds, pubOutcomes, pubBatch, pubColIdx, pubAssigned,
                 pubResponse,
                 pubBatchWrites, pubCreateCalls, pubCollectionCalls>>
  /\ UNCHANGED exceptPublish

\* productCreateMedia in its own try/catch: a throw is logged only
AddMedia ==
  /\ pubPc = "media"
  /\ pubProducts[pubI].images > 0
  /\ \E outcome \in {"ok", "throws"} :
       pubLogged' = IF outcome = "ok" THEN pubLogged ELSE pubLogged + 1
  /\ pubPc' = "count"
  /\ pubProductCalls' = Append(pubProductCalls, "productCreateMedia")
  /\ UNCHANGED <<pubProducts, pubCollectionIds, pubI, pubImported, pubFailed,
                 pubCreatedProductIds, pubOutcomes, pubBatch, pubColIdx, pubAssigned,
                 pubResponse,
                 pubBatchWrites, pubCreateCalls, pubCollectionCalls>>
  /\ UNCHANGED exceptPublish

\* CountImported that also writes the running counters to the batch row
CountImportedStreaming ==
  /\ pubPc = "count"
  /\ pubCreatedProductIds' = Append(pubCreatedProductIds, ProductId(pubI))
  /\ pubImported' = pubImported + 1
  /\ pubI' = pubI + 1
  /\ pubPc' = LoopNext
  /\ pubBatch' = [pubBatch EXCEPT !.imported_products = pubImported + 1]
  /\ pubBatchWrites' = Append(pubBatchWrites, pubBatch')
  /\ pubProductCalls' = <<>>
  /\ UNCHANGED <<pubProducts, pubCollectionIds, pubFailed, pubOutcomes, pubLogged,
                 pubColIdx, pubAssigned, pubResponse, pubCreateCalls, pubCollectionCalls>>
  /\ UNCHANGED exceptPublish

\* createdProductIds.push(productId); imported++
CountImported ==
  /\ pubPc = "count"
  /\ pubCreatedProductIds' = Append(pubCreatedProductIds, ProductId(pubI))
  /\ pubImported' = pubImported + 1
  /\ pubI' = pubI + 1
  /\ pubPc' = LoopNext
  /\ pubProductCalls' = <<>>
  /\ UNCHANGED <<pubProducts, pubCollectionIds, pubFailed, pubOutcomes, pubLogged,
                 pubBatch, pubColIdx, pubAssigned, pubResponse,
                 pubBatchWrites, pubCreateCalls, pubCollectionCalls>>
  /\ UNCHANGED exceptPublish

\* collection loop is entered only with collections and created products
SkipCollections ==
  /\ pubPc = "collections"
  /\ pubColIdx = 0
  /\ ~(Len(pubCollectionIds) > 0 /\ Len(pubCreatedProductIds) > 0)
  /\ pubPc' = "update"
  /\ UNCHANGED <<pubProducts, pubCollectionIds, pubI, pubImported, pubFailed,
                 pubCreatedProductIds, pubOutcomes, pubLogged, pubBatch, pubColIdx,
                 pubAssigned, pubResponse,
                 pubBatchWrites, pubCreateCalls, pubCollectionCalls, pubProductCalls>>
  /\ UNCHANGED exceptPublish

\* collection pass that gives up at the first failing collection
AddToCollectionStopOnError ==
  /\ pubPc = "collections"
  /\ Len(pubCollectionIds) > 0 /\ Len(pubCreatedProductIds) > 0
  /\ pubColIdx < Len(pubCollectionIds)
  /\ pubColIdx' = pubColIdx + 1
  /\ pubCollectionCalls' = Append(pubCollectionCalls,
                                  [id |-> pubCollectionIds[pubColIdx + 1],
                                   productIds |-> pubCreatedProductIds])
  /\ \E outcome \in {"ok", "throws"} :
       IF outcome = "ok"
       THEN /\ pubAssigned' = pubAssigned \cup {pubCollectionIds[pubColIdx + 1]}
            /\ pubLogged' = pubLogged
            /\ pubPc' = IF pubColIdx + 1 = Len(pubCollectionIds)
                        THEN "update" ELSE "collections"
       ELSE /\ pubAssigned' = pubAssigned
            /\ pubLogged' = pubLogged + 1
            /\ pubPc' = "update"
  /\ UNCHANGED <<pubProducts, pubCollectionIds, pubI, pubImported, pubFailed,
                 pubCreatedProductIds, pubOutcomes, pubBatch, pubResponse,
                 pubBatchWrites, pubCreateCalls, pubProductCalls>>
  /\ UNCHANGED exceptPublish

\* collectionAddProducts for one collection, in its own try/catch
AddToCollection ==
  /\ pubPc = "collections"
  /\ Len(pubCollectionIds) > 0 /\ Len(pubCreatedProductIds) > 0
  /\ pubColIdx < Len(pubCollectionIds)
  /\ pubColIdx' = pubColIdx + 1
  /\ pubCollectionCalls' = Append(pubCollectionCalls,
                                  [id |-> pubCollectionIds[pubColIdx + 1],
                                   productIds |-> pubCreatedProductIds])
  /\ \E outcome \in {"ok", "throws"} :
       IF outcome = "ok"
       THEN /\ pubAssigned' = pubAssigned \cup {pubCollectionIds[pubColIdx + 1]}
            /\ pubLogged' = pubLogged
       ELSE /\ pubAssigned' = pubAssigned
            /\ pubLogged' = pubLogged + 1
  /\ pubPc' = IF pubColIdx + 1 = Len(pubCollectionIds) THEN "update" ELSE "collections"
  /\ UNCHANGED <<pubProducts, pubCollectionIds, pubI, pubImported, pubFailed,
                 pubCreatedProductIds, pubOutcomes, pubBatch, pubResponse,
                 pubBatchWrites, pubCreateCalls, pubProductCalls>>
  /\ UNCHANGED exceptPublish

\* batch row set to 'completed' with the counters; JSON response
UpdateBatch ==
  /\ pubPc = "update"
  /\ \E elapsed \in ElapsedTimes :
       pubBatch' = [pubBatch EXCEPT !.status = "completed",
                                    !.imported_products = pubImported,
                                    !.failed_products = pubFailed,
                                    !.completed_at = Epoch + elapsed]
  /\ pubBatchWrites' = Append(pubBatchWrites, pubBatch')
  /\ pubResponse' = [batchId |-> BatchId, imported |-> pubImported,
                     failed |-> pubFailed, total |-> Len(pubProducts)]
  /\ pubPc' = "done"
  /\ UNCHANGED <<pubProducts, pubCollectionIds, pubI, pubImported, pubFailed,
                 pubCreatedProductIds, pubOutcomes, pubLogged, pubColIdx, pubAssigned,
                 pubCreateCalls, pubCollectionCalls, pubProductCalls>>
  /\ UNCHANGED exceptPublish

NextPublish ==
  \/ InsertBatch
  \/ CreateProductOk
  \/ CreateProductUserErrors
  \/ CreateProductThrows
  \/ UpdateVariant
  \/ AddMedia
  \/ CountImported
  \/ SkipCollections
  \/ AddToCollection
  \/ UpdateBatch

SpecPublish == InitPublish /\ [][NextPublish]_vars

\* products whose processing is over: all before the one in hand
Processed ==
  IF pubPc \in {"create", "variant", "media", "count"} THEN pubI - 1 ELSE Len(pubProducts)

RECURSIVE SucceededIds(_, _)
\* ids of the first n products whose creation succeeded, in submission order
SucceededIds(outcomes, n) ==
  IF n = 0 THEN <<>>
  ELSE IF outcomes[n] = "ok"
       THEN Append(SucceededIds(outcomes, n - 1), ProductId(n))
       ELSE SucceededIds(outcomes, n - 1)

\* C1: whatever the products and the per-product creation outcomes, the run
\* goes on to the next product: once a product is processed imported + failed
\* is the number of products processed so far, at the end imported + failed =
\* total = number of submitted products, and createdProductIds is the ids of
\* the products whose creation succeeded, in submission order.
C1_CountersTrackProcessed ==
  (pubPc \in PublishStages \ {"insert"}) =>
    /\ pubImported + pubFailed = Processed
    /\ pubCreatedProductIds = SucceededIds(pubOutcomes, Processed)
    /\ pubPc \in {"collections", "update", "done"} => Len(pubOutcomes) = Len(pubProducts)
    /\ pubPc = "done" =>
         /\ pubResponse.imported + pubResponse.failed = pubResponse.total
         /\ pubResponse.total = Len(pubProducts)
         /\ pubResponse.imported = Len(pubCreatedProductIds)
         /\ pubBatch.imported_products + pubBatch.failed_products = pubBatch.total_products

C1_Witness ==
  /\ pubPc = "done"
  /\ Len(pubProducts) = 4
  /\ pubOutcomes = <<"ok", "userErrors", "ok", "ok">>
  /\ pubResponse = [batchId |-> BatchId, imported |-> 3, failed |-> 1, total |-> 4]
  /\ pubCreatedProductIds = <<ProductId(1), ProductId(3), ProductId(4)>>

\* collection calls the run makes once the product loop is over
CollectionCallsDue ==
  IF Len(pubCollectionIds) > 0 /\ Len(pubCreatedProductIds) > 0
  THEN Len(pubCollectionIds) ELSE 0

\* C13: the batch row is written exactly twice: inserted as 'processing'
\* with total_products, zero counters and a null completed_at before any
\* product is processed, and updated once, after all product and collection
\* work, to 'completed' with the final counters and completed_at >= created_at;
\* no write happens in between.
C13_BatchWrittenTwice ==
  /\ pubPc = "insert" => pubBatchWrites = <<>> /\ pubCreateCalls = <<>>
  /\ (pubPc \in PublishStages \ {"insert", "done"}) =>
        /\ Len(pubBatchWrites) = 1
        /\ pubBatch = pubBatchWrites[1]
  /\ Len(pubBatchWrites) >= 1 =>
        /\ pubBatchWrites[1].status = "processing"
        /\ pubBatchWrites[1].total_products = Len(pubProducts)
        /\ pubBatchWrites[1].imported_products = 0
        /\ pubBatchWrites[1].failed_products = 0
        /\ pubBatchWrites[1].completed_at = NullTime
  /\ pubPc = "done" =>
        /\ Len(pubBatchWrites) = 2
        /\ pubBatch = pubBatchWrites[2]
        /\ pubBatch.status = "completed"
        /\ pubBatch.total_products = Len(pubProducts)
        /\ pubBatch.imported_products = pubImported
        /\ pubBatch.failed_products = pubFailed
        /\ pubBatch.completed_at # NullTime
        /\ pubBatch.completed_at >= pubBatch.created_at
        /\ Len(pubCreateCalls) = Len(pubProducts)
        /\ Len(pubCollectionCalls) = CollectionCallsDue

C13_Witness ==
  /\ pubPc = "done"
  /\ Len(pubBatchWrites) = 2
  /\ pubBatchWrites[1].status = "processing"
  /\ pubBatch.status = "completed"
  /\ pubBatch.imported_products = 2
  /\ pubBatch.failed_products = 1
  /\ pubBatch.completed_at > pubBatch.created_at

(***************************************************************************)
(* The AI service key at the start of the optimize, publish and image      *)
(* generation requests                                                     *)
(***************************************************************************)
KeyActions == {"optimize", "publish", "generate"}

InitKey ==
  /\ IdleStrip
  /\ IdleOptimize
  /\ IdleUrl
  /\ IdleCollection
  /\ IdleScrape
  /\ IdlePricing
  /\ IdlePublish
  /\ IdleVariants
  /\ IdleRetry
  /\ IdleBatches
  /\ IdleSteps
  /\ IdleReoptimize
  /\ IdleNormalize
  /\ IdlePages
  /\ IdleTenants
  /\ kyPc = "start"
  /\ kyAction \in KeyActions
  /\ kyApiKey \in BOOLEAN
  /\ kyOptimizeContent \in BOOLEAN
  /\ kyEnhanceImages \in BOOLEAN
  /\ kyProducts \in 0..MaxKeyProducts
  /\ kyProcessed = 0
  /\ kyAiCalls = 0
  /\ kyMutations = 0
  /\ kyBatchRows = 0
  /\ kyResponse = NULL

\* optimize action: `if (!apiKey) return 500` before the payload is read
OptimizeNoKey ==
  /\ kyPc = "start"
  /\ kyAction = "optimize"
  /\ ~kyApiKey
  /\ kyResponse' = "error"
  /\ kyPc' = "done"
  /\ UNCHANGED <<kyAction, kyApiKey, kyOptimizeContent, kyEnhanceImages, kyProducts,
                 kyProcessed, kyAiCalls, kyMutations, kyBatchRows>>
  /\ UNCHANGED exceptKey

\* optimize action with a key: optimizeProducts over the payload
OptimizeWithKey ==
  /\ kyPc = "start"
  /\ kyAction = "optimize"
  /\ kyApiKey
  /\ kyProcessed' = kyProducts
  /\ kyAiCalls' = kyProducts
  /\ kyResponse' = "ok"
  /\ kyPc' = "done"
  /\ UNCHANGED <<kyAction, kyApiKey, kyOptimizeContent, kyEnhanceImages, kyProducts,
                 kyMutations, kyBatchRows>>
  /\ UNCHANGED exceptKey

\* publish action: the batch row is inserted whatever the key
PublishStart ==
  /\ kyPc = "start"
  /\ kyAction = "publish"
  /\ kyBatchRows' = kyBatchRows + 1
  /\ kyPc' = "loop"
  /\ UNCHANGED <<kyAction, kyApiKey, kyOptimizeContent, kyEnhanceImages, kyProducts,
                 kyProcessed, kyAiCalls, kyMutations, kyResponse>>
  /\ UNCHANGED exceptKey

\* AI calls one product costs: optimizeProduct and enhanceProductImage are
\* each guarded by `flag && geminiApiKey`
ProductAiCalls ==
  (IF kyOptimizeContent /\ kyApiKey THEN 1 ELSE 0)
    + (IF kyEnhanceImages /\ kyApiKey THEN 1 ELSE 0)

\* publish action: one product optimized, enhanced and created
PublishProduct ==
  /\ kyPc = "loop"
  /\ kyProcessed < kyProducts
  /\ kyAiCalls' = kyAiCalls + ProductAiCalls
  /\ \E created \in BOOLEAN :
       kyMutations' = IF created THEN kyMutations + 1 ELSE kyMutations
  /\ kyProcessed' = kyProcessed + 1
  /\ UNCHANGED <<kyPc, kyAction, kyApiKey, kyOptimizeContent, kyEnhanceImages, kyProducts,
                 kyBatchRows, kyResponse>>
  /\ UNCHANGED exceptKey

\* publish action: batch update and the {batchId, imported, failed, total} response
PublishRespond ==
  /\ kyPc = "loop"
  /\ kyProcessed = kyProducts
  /\ kyResponse' = "ok"
  /\ kyPc' = "done"
  /\ UNCHANGED <<kyAction, kyApiKey, kyOptimizeContent, kyEnhanceImages, kyProducts,
                 kyProcessed, kyAiCalls, kyMutations, kyBatchRows>>
  /\ UNCHANGED exceptKey

\* image generation action, intent "generate": generateProductImage is
\* called with whatever the key is; without a key the AI service rejects it
GenerateImage ==
  /\ kyPc = "start"
  /\ kyAction = "generate"
  /\ kyAiCalls' = kyAiCalls + 1
  /\ \E accepted \in BOOLEAN :
       /\ accepted => kyApiKey
       /\ kyResponse' = IF accepted THEN "ok" ELSE "error"
  /\ kyPc' = "done"
  /\ UNCHANGED <<kyAction, kyApiKey, kyOptimizeContent, kyEnhanceImages, kyProducts,
                 kyProcessed, kyMutations, kyBatchRows>>
  /\ UNCHANGED exceptKey

NextKey ==
  \/ OptimizeNoKey
  \/ OptimizeWithKey
  \/ PublishStart
  \/ PublishProduct
  \/ PublishRespond
  \/ GenerateImage

SpecKey == InitKey /\ [][NextKey]_vars

\* the request asks for AI work
AiRequested ==
  \/ kyAction \in {"optimize", "generate"}
  \/ kyAction = "publish" /\ (kyOptimizeContent \/ kyEnhanceImages)

\* C14: a request that asks for AI work while the AI service key is missing
\* fails fast: it answers with an error before any product is processed,
\* and makes no AI call, no catalog mutation and no batch row.
C14_MissingKeyFailsFast ==
  (~kyApiKey /\ AiRequested) =>
    /\ kyAiCalls = 0
    /\ kyMutations = 0
    /\ kyBatchRows = 0
    /\ kyProcessed = 0
    /\ kyPc = "done" => kyResponse = "error"

(***************************************************************************)
(* applyPricingToAllVariants (pricing.server.ts)                           *)
(***************************************************************************)
\* a variant: its price strings and one of the fields pricing leaves alone
VariantRecords ==
  [price : {Num(Scale + 500), Num(2 * Scale + 990), NaN},
   compareAtPrice : {NoPrice, Num(3 * Scale)},
   sku : {"a", "b"}]

VariantSettings ==
  [retail_price_multiplier : {100, 150}, retail_price_manual : {FALSE},
   compare_at_price_multiplier : {0}, compare_at_price_manual : {FALSE},
   price_rounding : {".99", ".00"}, variant_pricing : BOOLEAN]

\* applyPricing's return value: {...variant, price, compareAtPrice}
PricedVariant(variant, settings, sourceCurrency, targetCurrency) ==
  LET priced == applyPricing(variant, settings, sourceCurrency, targetCurrency)
  IN [variant EXCEPT !.price = priced.price, !.compareAtPrice = priced.compareAtPrice]

\* applyPricingToAllVariants that copies the last variant's prices
applyPricingToAllVariantsLast(variants, settings, sourceCurrency, targetCurrency) ==
  LET processed == [k \in 1..Len(variants) |->
                      PricedVariant(variants[k], settings, sourceCurrency, targetCurrency)]
  IN IF settings.variant_pricing /\ Len(processed) > 0
     THEN [k \in 1..Len(processed) |->
             [processed[k] EXCEPT !.price = processed[Len(processed)].price,
                                  !.compareAtPrice = processed[Len(processed)].compareAtPrice]]
     ELSE processed

\* pricing.server.ts 149-177
applyPricingToAllVariants(variants, settings, sourceCurrency, targetCurrency) ==
  LET processed == [k \in 1..Len(variants) |->
                      PricedVariant(variants[k], settings, sourceCurrency, targetCurrency)]
  IN IF settings.variant_pricing /\ Len(processed) > 0
     THEN [k \in 1..Len(processed) |->
             [processed[k] EXCEPT !.price = processed[1].price,
                                  !.compareAtPrice = processed[1].compareAtPrice]]
     ELSE processed

InitVariants ==
  /\ IdleStrip
  /\ IdleOptimize
  /\ IdleUrl
  /\ IdleCollection
  /\ IdleScrape
  /\ IdlePricing
  /\ IdlePublish
  /\ IdleKey
  /\ IdleRetry
  /\ IdleBatches
  /\ IdleSteps
  /\ IdleReoptimize
  /\ IdleNormalize
  /\ IdlePages
  /\ IdleTenants
  /\ vpPc = "call"
  /\ vpVariants \in SeqsUpTo(VariantRecords, MaxVariants)
  /\ vpSettings \in VariantSettings
  /\ vpCurrencies \in CurrencyPairs
  /\ vpResult = <<>>

ApplyPricingToAllVariantsCall ==
  /\ vpPc = "call"
  /\ vpResult' = applyPricingToAllVariants(vpVariants, vpSettings,
                                           vpCurrencies[1], vpCurrencies[2])
  /\ vpPc' = "done"
  /\ UNCHANGED <<vpVariants, vpSettings, vpCurrencies>>
  /\ UNCHANGED exceptVariants

NextVariants == ApplyPricingToAllVariantsCall

SpecVariants == InitVariants /\ [][NextVariants]_vars

\* applyPricing of the k-th input variant
OwnPricing(k) == applyPricing(vpVariants[k], vpSettings, vpCurrencies[1], vpCurrencies[2])

\* C16: with variant_pricing on, the result has the length and order of the
\* input, every variant carries the price and compare-at price computed for
\* the first variant, and every other field is unchanged; with it off every
\* variant carries its own applyPricing result.
C16_UniformVariantPricing ==
  vpPc = "done" =>
    /\ Len(vpResult) = Len(vpVariants)
    /\ \A k \in 1..Len(vpVariants) :
         /\ vpResult[k].sku = vpVariants[k].sku
         /\ DOMAIN vpResult[k] = DOMAIN vpVariants[k]
         /\ vpSettings.variant_pricing =>
               /\ vpResult[k].price = OwnPricing(1).price
               /\ vpResult[k].compareAtPrice = OwnPricing(1).compareAtPrice
         /\ ~vpSettings.variant_pricing =>
               /\ vpResult[k].price = OwnPricing(k).price
               /\ vpResult[k].compareAtPrice = OwnPricing(k).compareAtPrice

C16_Witness ==
  /\ vpPc = "done"
  /\ vpSettings.variant_pricing
  /\ Len(vpVariants) = 2
  /\ vpVariants[1].sku # vpVariants[2].sku
  /\ OwnPricing(1).price # OwnPricing(2).price
  /\ vpResult[2].price = OwnPricing(1).price
  /\ vpResult[2].sku = vpVariants[2].sku

(***************************************************************************)
(* Retry loops of callGemini and enhanceProductImage (gemini.server.ts)    *)
(***************************************************************************)
\* retries = 3, maxRetries = 3
MaxRetries == 3

RetryFunctions == {"callGemini", "enhanceProductImage"}

\* what one request to the AI service can give
AiResponses == {"ok", "429", "500", "throw", "empty"}

RECURSIVE Pow2(_)
Pow2(n) == IF n = 0 THEN 1 ELSE 2 * Pow2(n - 1)

\* milliseconds multiplied by 2^attempt: 2000 (429) and 1000 (other) in
\* callGemini, 3000 (429) and 2000 (other) in enhanceProductImage
BackoffBase(fn, response) ==
  IF fn = "callGemini"
  THEN (IF response = "429" THEN 2000 ELSE 1000)
  ELSE (IF response = "429" THEN 3000 ELSE 2000)

\* a wait that does not grow with the attempt
BackoffFlat(fn, response, attempt) == BackoffBase(fn, response)

\* Math.pow(2, attempt) * base
Backoff(fn, response, attempt) == Pow2(attempt) * BackoffBase(fn, response)

InitRetry ==
  /\ IdleStrip
  /\ IdleOptimize
  /\ IdleUrl
  /\ IdleCollection
  /\ IdleScrape
  /\ IdlePricing
  /\ IdlePublish
  /\ IdleKey
  /\ IdleVariants
  /\ IdleBatches
  /\ IdleSteps
  /\ IdleReoptimize
  /\ IdleNormalize
  /\ IdlePages
  /\ IdleTenants
  /\ rtFn \in RetryFunctions
  /\ rtPc = IF rtFn = "enhanceProductImage" THEN "image" ELSE "attempt"
  /\ rtAttempt = 0
  /\ rtRequests = 0
  /\ rtDelays = <<>>
  /\ rtResponses = <<>>
  /\ rtResult = NULL

\* enhanceProductImage 545-549, generateProductImage 454-458: the source
\* (reference) image is fetched once, unretried
FetchSourceImage ==
  /\ rtPc = "image"
  /\ \E fetched \in BOOLEAN :
       IF fetched
       THEN rtPc' = "attempt" /\ rtResult' = rtResult
       ELSE rtPc' = "failed" /\ rtResult' = "error"
  /\ UNCHANGED <<rtFn, rtAttempt, rtRequests, rtDelays, rtResponses>>
  /\ UNCHANGED exceptRetry

\* the response has the text / the image: delay, then return
AttemptSucceeds ==
  /\ rtPc = "attempt"
  /\ rtFn \in RetryFunctions
  /\ rtAttempt <= MaxRetries
  /\ rtRequests' = rtRequests + 1
  /\ rtResponses' = Append(rtResponses, "ok")
  /\ rtResult' = "value"
  /\ rtPc' = "done"
  /\ UNCHANGED <<rtFn, rtAttempt, rtDelays>>
  /\ UNCHANGED exceptRetry

\* 429, another non-2xx status, a thrown fetch or an empty body, with
\* attempts left: wait and take the next turn of the loop
AttemptFailsRetry ==
  /\ rtPc = "attempt"
  /\ rtFn \in RetryFunctions
  /\ rtAttempt < MaxRetries
  /\ \E response \in AiResponses \ {"ok"} :
       /\ rtResponses' = Append(rtResponses, response)
       /\ rtDelays' = Append(rtDelays, Backoff(rtFn, response, rtAttempt))
  /\ rtRequests' = rtRequests + 1
  /\ rtAttempt' = rtAttempt + 1
  /\ UNCHANGED <<rtPc, rtFn, rtResult>>
  /\ UNCHANGED exceptRetry

\* the same on the last attempt: the error is thrown to the caller
AttemptFailsLast ==
  /\ rtPc = "attempt"
  /\ rtFn \in RetryFunctions
  /\ rtAttempt = MaxRetries
  /\ \E response \in AiResponses \ {"ok"} :
       rtResponses' = Append(rtResponses, response)
  /\ rtRequests' = rtRequests + 1
  /\ rtResult' = "error"
  /\ rtPc' = "failed"
  /\ UNCHANGED <<rtFn, rtAttempt, rtDelays>>
  /\ UNCHANGED exceptRetry

NextRetry ==
  \/ FetchSourceImage
  \/ AttemptSucceeds
  \/ AttemptFailsRetry
  \/ AttemptFailsLast

SpecRetry == InitRetry /\ [][NextRetry]_vars /\ WF_vars(NextRetry)

\* requests made, retries waited for, first success returned, last failure thrown
RetryBounded ==
  /\ rtRequests <= MaxRetries + 1
  /\ rtRequests = Len(rtResponses)
  /\ rtPc = "attempt" => Len(rtDelays) = rtRequests
  /\ \A k \in 1..Len(rtResponses) : rtResponses[k] = "ok" => k = Len(rtResponses)
  /\ rtPc = "done" =>
        /\ rtResult = "value"
        /\ rtResponses[Len(rtResponses)] = "ok"
        /\ Len(rtDelays) = rtRequests - 1
  /\ rtPc = "failed" =>
        /\ rtResult = "error"
        /\ \/ rtRequests = MaxRetries + 1 /\ Len(rtDelays) = MaxRetries
           \/ rtRequests = 0 /\ rtFn = "enhanceProductImage"

\* C17 as stated: at most 4 attempts, a wait before every retry that is twice
\* the wait before the previous one, return on the first success, the error
\* thrown after the last failure, and termination.
C17_BackoffDoubles ==
  /\ RetryBounded
  /\ \A k \in 2..Len(rtDelays) : rtDelays[k] = 2 * rtDelays[k - 1]

\* C17 amended: at most 4 requests to the AI service (1 initial + 3
\* retries) for any sequence of responses; before the retry that follows
\* attempt k (k = 0, 1, 2) the wait is 2^k times a base that depends on the
\* failure (429: 2 s in callGemini, 3 s in enhanceProductImage; anything else:
\* 1 s and 2 s), so it doubles along failures of one kind; the first success
\* is returned, the last failure is thrown, and enhanceProductImage throws at
\* once when the source image cannot be fetched; the call always terminates.
C17_BoundedRetries ==
  /\ [](/\ RetryBounded
        /\ \A k \in 1..Len(rtDelays) :
              rtDelays[k] = Pow2(k - 1) * BackoffBase(rtFn, rtResponses[k]))
  /\ <>(rtPc \in {"done", "failed"})

C17_Witness ==
  /\ rtPc = "failed"
  /\ rtFn = "callGemini"
  /\ rtResponses = <<"429", "500", "429", "empty">>
  /\ rtDelays = <<2000, 2000, 8000>>
  /\ rtRequests = 4

(***************************************************************************)
(* optimizeProducts (gemini.server.ts): batches awaited with allSettled    *)
(***************************************************************************)
\* const BATCH_SIZE = 3
BATCH_SIZE == 3

\* products.slice(i, i + BATCH_SIZE), as 1-based positions
BatchSlice(i, total) == {p \in 1..total : i < p /\ p <= i + BATCH_SIZE}

\* number of the batch a product belongs to
BatchOf(p) == (p - 1) \div BATCH_SIZE

InitBatches ==
  /\ IdleStrip
  /\ IdleOptimize
  /\ IdleUrl
  /\ IdleCollection
  /\ IdleScrape
  /\ IdlePricing
  /\ IdlePublish
  /\ IdleKey
  /\ IdleVariants
  /\ IdleRetry
  /\ IdleSteps
  /\ IdleReoptimize
  /\ IdleNormalize
  /\ IdlePages
  /\ IdleTenants
  /\ obPc = "loop"
  /\ obTotal \in 0..MaxBatchProducts
  /\ obI = 0
  /\ obStarted = {}
  /\ obInFlight = {}
  /\ obOutcome = [p \in 1..obTotal |-> "pending"]
  /\ obOptimized = <<>>
  /\ obWarnings = <<>>

\* batch.map(optimizeProduct): every product of the slice is started
StartBatch ==
  /\ obPc = "loop"
  /\ obI < obTotal
  /\ obStarted' = obStarted \cup BatchSlice(obI, obTotal)
  /\ obInFlight' = obInFlight \cup BatchSlice(obI, obTotal)
  /\ obPc' = "await"
  /\ UNCHANGED <<obTotal, obI, obOutcome, obOptimized, obWarnings>>
  /\ UNCHANGED exceptBatches

\* one optimizeProduct promise fulfils or rejects
SettleOne ==
  /\ obInFlight # {}
  /\ \E p \in obInFlight, outcome \in {"fulfilled", "rejected"} :
       /\ obInFlight' = obInFlight \ {p}
       /\ obOutcome' = [obOutcome EXCEPT ![p] = outcome]
  /\ UNCHANGED <<obPc, obTotal, obI, obStarted, obOptimized, obWarnings>>
  /\ UNCHANGED exceptBatches

\* Promise.allSettled resolves without waiting for the whole batch
AllSettledEarly == TRUE

\* Promise.allSettled resolves when every promise of the batch has settled
AllSettled == \A p \in BatchSlice(obI, obTotal) : obOutcome[p] # "pending"

\* result.value of a fulfilled optimizeProduct: title, description and
\* images are what optimizeProduct made, the original* fields the input's
FulfilledValue(p) ==
  [product |-> p, ai |-> TRUE,
   title |-> "optimized", description |-> "optimized", images |-> "optimized",
   originalTitle |-> "original", originalDescription |-> "original"]

\* {...batch[j], originalTitle: batch[j].title, originalDescription: batch[j].description}
FallbackRecord(p) ==
  [product |-> p, ai |-> FALSE,
   title |-> "original", description |-> "original", images |-> "original",
   originalTitle |-> "original", originalDescription |-> "original"]

\* only the fulfilled results are pushed
RECURSIVE PushResultsFulfilledOnly(_, _, _)
PushResultsFulfilledOnly(optimized, p, last) ==
  IF p > last THEN optimized
  ELSE PushResultsFulfilledOnly(IF obOutcome[p] = "fulfilled"
                                THEN Append(optimized, FulfilledValue(p))
                                ELSE optimized,
                                p + 1, last)

\* results of the batch pushed in batch order, rejected ones with a warning
RECURSIVE PushResults(_, _, _)
PushResults(optimized, p, last) ==
  IF p > last THEN optimized
  ELSE PushResults(Append(optimized, IF obOutcome[p] = "fulfilled"
                                     THEN FulfilledValue(p) ELSE FallbackRecord(p)),
                   p + 1, last)

RECURSIVE PushWarnings(_, _, _)
PushWarnings(warnings, p, last) ==
  IF p > last THEN warnings
  ELSE PushWarnings(IF obOutcome[p] = "fulfilled" THEN warnings ELSE Append(warnings, p),
                    p + 1, last)

\* the await returns: results collected, i += BATCH_SIZE
CollectBatch ==
  /\ obPc = "await"
  /\ AllSettled
  /\ LET last == IF obI + BATCH_SIZE < obTotal THEN obI + BATCH_SIZE ELSE obTotal
     IN /\ obOptimized' = PushResults(obOptimized, obI + 1, last)
        /\ obWarnings' = PushWarnings(obWarnings, obI + 1, last)
  /\ obI' = obI + BATCH_SIZE
  /\ obPc' = "loop"
  /\ UNCHANGED <<obTotal, obStarted, obInFlight, obOutcome>>
  /\ UNCHANGED exceptBatches

\* return { products: optimized, warnings }
ReturnOptimized ==
  /\ obPc = "loop"
  /\ obI >= obTotal
  /\ obPc' = "done"
  /\ UNCHANGED <<obTotal, obI, obStarted, obInFlight, obOutcome, obOptimized, obWarnings>>
  /\ UNCHANGED exceptBatches

NextBatches ==
  \/ StartBatch
  \/ SettleOne
  \/ CollectBatch
  \/ ReturnOptimized

SpecBatches == InitBatches /\ [][NextBatches]_vars

\* C18: the input is cut into consecutive batches of 3; never more than 3
\* optimizations are in flight, and no optimization of a batch has started
\* while one of an earlier batch has not settled.
C18_BatchesOfThree ==
  (obPc # "idle") =>
    /\ Cardinality(obInFlight) <= BATCH_SIZE
    /\ \A p \in obInFlight, q \in obInFlight : BatchOf(p) = BatchOf(q)
    /\ \A p \in obStarted : \A q \in 1..obTotal :
          BatchOf(q) < BatchOf(p) => obOutcome[q] # "pending"
    /\ \A p \in obStarted : \A q \in 1..obTotal : BatchOf(q) = BatchOf(p) => q \in obStarted
    /\ obPc = "done" =>
          /\ obStarted = 1..obTotal
          /\ obInFlight = {}
          /\ Len(obOptimized) = obTotal
          /\ \A k \in 1..obTotal : obOptimized[k].product = k

C18_Witness ==
  /\ obTotal >= 5
  /\ obInFlight = {4, 5}
  /\ obOutcome[1] = "fulfilled"
  /\ obOutcome[2] = "rejected"
  /\ obOutcome[3] = "fulfilled"
  /\ Len(obOptimized) = 3

\* the collection calls made so far are for the first collections, in order,
\* each with the full list of created product ids
CollectionCallsInOrder ==
  /\ Len(pubCollectionCalls) <= Len(pubCollectionIds)
  /\ \A k \in 1..Len(pubCollectionCalls) :
        /\ pubCollectionCalls[k].id = pubCollectionIds[k]
        /\ pubCollectionCalls[k].productIds = pubCreatedProductIds
        /\ pubCollectionCalls[k].productIds = SucceededIds(pubOutcomes, Len(pubProducts))

\* no collection call before the product loop is over
CollectionsAfterProducts ==
  Len(pubCollectionCalls) > 0 =>
    /\ Len(pubCreateCalls) = Len(pubProducts)
    /\ pubImported + pubFailed = Len(pubProducts)
    /\ pubPc \in {"collections", "update", "done"}

\* C19 as stated: no collection call before every product's creation attempt
\* has finished; then exactly one call per selected collection, each with the
\* full list of created product ids, whatever the outcome of the other calls.
C19_OneCallPerCollection ==
  /\ CollectionsAfterProducts
  /\ CollectionCallsInOrder
  /\ pubPc \in {"update", "done"} => Len(pubCollectionCalls) = Len(pubCollectionIds)

\* C19 amended: no collection call is issued before every product's creation
\* attempt has finished; then, if at least one product was created, exactly
\* one call is issued per selected collection, in order, each carrying the
\* full list of the created product ids, and a failing call prevents neither
\* the remaining calls nor the batch completion; if no product was created no
\* collection call is issued at all.
C19_OneCallPerCollectionIfCreated ==
  /\ CollectionsAfterProducts
  /\ CollectionCallsInOrder
  /\ pubPc \in {"update", "done"} => Len(pubCollectionCalls) = CollectionCallsDue
  /\ pubPc = "done" => pubBatch.status = "completed" /\ pubAssigned \subseteq Range(pubCollectionIds)

C19_Witness ==
  /\ pubPc = "done"
  /\ pubCollectionIds = <<"c1", "c2">>
  /\ pubOutcomes = <<"ok", "throws", "ok">>
  /\ pubAssigned = {"c2"}
  /\ pubCollectionCalls = <<[id |-> "c1", productIds |-> <<ProductId(1), ProductId(3)>>],
                            [id |-> "c2", productIds |-> <<ProductId(1), ProductId(3)>>]>>

\* the product the remote calls are being made for
ProductInHand == pubPc \in {"variant", "media", "count"}

\* C20: products are processed one at a time in input order: one creation
\* call per product, none repeated after user errors or a failure, and the
\* creation call of the next product is issued only when every remote call of
\* the product before it (creation, variant update, media) is over.
C20_OneProductAtATime ==
  (pubPc \in PublishStages \ {"insert"}) =>
    /\ pubCreateCalls = [k \in 1..Len(pubOutcomes) |-> k]
    /\ Len(pubOutcomes) = IF ProductInHand THEN pubI ELSE Processed
    /\ ProductInHand =>
          /\ pubProductCalls # <<>>
          /\ Head(pubProductCalls) = "productCreate"
          /\ pubCreateCalls[Len(pubCreateCalls)] = pubI
          /\ pubOutcomes[pubI] = "ok"
    /\ ~ProductInHand => pubProductCalls = <<>>
    /\ pubPc = "done" => Len(pubCreateCalls) = Len(pubProducts)

C20_Witness ==
  /\ pubPc = "create"
  /\ pubI = 3
  /\ pubOutcomes = <<"userErrors", "ok">>
  /\ pubCreateCalls = <<1, 2>>
  /\ pubProductCalls = <<>>
  /\ pubLogged = 3

(***************************************************************************)
(* Publish action, the steps made for each product: optimization, image    *)
(* enhancement with its staged upload, creation, variant update, media     *)
(***************************************************************************)
MaxStepProducts == 2

\* a submitted product, by its number of images and of variants
StepProducts == [images : 0..1, variants : 0..1]

\* optimizeContent, enhanceImages and whether GEMINI_API_KEY is configured
StepFlags == [optimizeContent : BOOLEAN, enhanceImages : BOOLEAN, geminiApiKey : BOOLEAN]

\* one entry of the log of the calls made for the product in hand
Call(name, outcome) == [call |-> name, outcome |-> outcome]

\* the batch row, the statuses written to it, the payload's collection list
\* and the collections whose call failed
psLedger == <<psBatch, psStatusWrites, psCollectionIds, psCollectionFailed>>

InitSteps ==
  /\ IdleStrip
  /\ IdleOptimize
  /\ IdleUrl
  /\ IdleCollection
  /\ IdleScrape
  /\ IdlePricing
  /\ IdlePublish
  /\ IdleKey
  /\ IdleVariants
  /\ IdleRetry
  /\ IdleBatches
  /\ IdleReoptimize
  /\ IdleNormalize
  /\ IdlePages
  /\ IdleTenants
  /\ psPc = "insert"
  /\ psFlags \in StepFlags
  /\ psProducts \in SeqsUpTo(StepProducts, MaxStepProducts)
  /\ psI = 1
  /\ psImported = 0
  /\ psFailed = 0
  /\ psCreated = <<>>
  /\ psOutcomes = <<>>
  /\ psCalls = <<>>
  /\ psBatch = NoRow
  /\ psStatusWrites = <<>>
  /\ psCollectionIds = <<>>
  /\ psCollectionFailed = {}

\* INSERT INTO import_batches (..., status, ...) VALUES (?, 'processing', ...)
StepInsertBatch ==
  /\ psPc = "insert"
  /\ psBatch' = [status |-> "processing", total_products |-> Len(psProducts),
                 imported_products |-> 0, failed_products |-> 0]
  /\ psStatusWrites' = Append(psStatusWrites, "processing")
  /\ psPc' = IF Len(psProducts) = 0 THEN "collections" ELSE "optimize"
  /\ UNCHANGED <<psFlags, psProducts, psI, psImported, psFailed, psCreated, psOutcomes,
                 psCalls, psCollectionIds, psCollectionFailed>>
  /\ UNCHANGED exceptSteps

\* `if (optimizeContent && geminiApiKey)`: optimizeProduct in its own try/catch
StepOptimize ==
  /\ psPc = "optimize"
  /\ IF psFlags.optimizeContent /\ psFlags.geminiApiKey
     THEN \E outcome \in {"ok", "throws"} :
            psCalls' = Append(psCalls, Call("optimizeProduct", outcome))
     ELSE psCalls' = psCalls
  /\ psPc' = "enhance"
  /\ UNCHANGED <<psFlags, psProducts, psI, psImported, psFailed, psCreated, psOutcomes>>
  /\ UNCHANGED psLedger
  /\ UNCHANGED exceptSteps

\* calls of one pass of the enhancement loop: enhanceProductImage, then
\* uploadBase64ImageToShopify (staged upload slot, binary upload); the first
\* failure ends the pass and the original image is kept
EnhancePasses ==
  { <<Call("enhanceProductImage", "throws")>>,
    <<Call("enhanceProductImage", "ok"), Call("stagedUploadsCreate", "noTarget")>>,
    <<Call("enhanceProductImage", "ok"), Call("stagedUploadsCreate", "ok"),
      Call("upload", "notOk")>>,
    <<Call("enhanceProductImage", "ok"), Call("stagedUploadsCreate", "ok"),
      Call("upload", "ok")>> }

\* `if (enhanceImages && geminiApiKey && images.length > 0)`: one pass per image
StepEnhance ==
  /\ psPc = "enhance"
  /\ IF psFlags.enhanceImages /\ psFlags.geminiApiKey /\ psProducts[psI].images > 0
     THEN \E pass \in EnhancePasses : psCalls' = psCalls \o pass
     ELSE psCalls' = psCalls
  /\ psPc' = "create"
  /\ UNCHANGED <<psFlags, psProducts, psI, psImported, psFailed, psCreated, psOutcomes>>
  /\ UNCHANGED psLedger
  /\ UNCHANGED exceptSteps

\* stage after the variant block: media only when there are images
StepAfterVariant == IF psProducts[psI].images > 0 THEN "media" ELSE "count"

\* productCreate returned a product and no user errors
StepCreateOk ==
  /\ psPc = "create"
  /\ psCalls' = Append(psCalls, Call("productCreate", "ok"))
  /\ psOutcomes' = Append(psOutcomes, "ok")
  /\ \E edges \in 0..1 :
       psPc' = IF edges > 0 THEN "variant" ELSE StepAfterVariant
  /\ UNCHANGED <<psFlags, psProducts, psI, psImported, psFailed, psCreated>>
  /\ UNCHANGED psLedger
  /\ UNCHANGED exceptSteps

\* productCreate returned user errors or threw: failed++
StepCreateFails ==
  /\ psPc = "create"
  /\ \E outcome \in {"userErrors", "throws"} :
       /\ psCalls' = Append(psCalls, Call("productCreate", outcome))
       /\ psOutcomes' = Append(psOutcomes, outcome)
  /\ psFailed' = psFailed + 1
  /\ psPc' = "next"
  /\ UNCHANGED <<psFlags, psProducts, psI, psImported, psCreated>>
  /\ UNCHANGED psLedger
  /\ UNCHANGED exceptSteps

\* outcomes of the variant try block: with no variant, firstVariant is
\* undefined and reading firstVariant.weightUnit throws inside the try
VariantOutcomes(product) ==
  IF product.variants = 0 THEN {"throws"} ELSE {"ok", "userErrors", "throws"}

\* a failing variant update that fails the product
StepVariantFatal ==
  /\ psPc = "variant"
  /\ \E outcome \in VariantOutcomes(psProducts[psI]) :
       /\ psCalls' = Append(psCalls, Call("productVariantsBulkUpdate", outcome))
       /\ IF outcome = "ok"
          THEN /\ psPc' = StepAfterVariant
               /\ psFailed' = psFailed
          ELSE /\ psPc' = "next"
               /\ psFailed' = psFailed + 1
  /\ UNCHANGED <<psFlags, psProducts, psI, psImported, psCreated, psOutcomes>>
  /\ UNCHANGED psLedger
  /\ UNCHANGED exceptSteps

\* default-variant update in its own try/catch: errors are logged only
StepVariant ==
  /\ psPc = "variant"
  /\ \E outcome \in VariantOutcomes(psProducts[psI]) :
       psCalls' = Append(psCalls, Call("productVariantsBulkUpdate", outcome))
  /\ psPc' = StepAfterVariant
  /\ UNCHANGED <<psFlags, psProducts, psI, psImported, psFailed, psCreated, psOutcomes>>
  /\ UNCHANGED psLedger
  /\ UNCHANGED exceptSteps

\* productCreateMedia in its own try/catch; its response is not read
StepMedia ==
  /\ psPc = "media"
  /\ \E outcome \in {"ok", "userErrors", "throws"} :
       psCalls' = Append(psCalls, Call("productCreateMedia", outcome))
  /\ psPc' = "count"
  /\ UNCHANGED <<psFlags, psProducts, psI, psImported, psFailed, psCreated, psOutcomes>>
  /\ UNCHANGED psLedger
  /\ UNCHANGED exceptSteps

\* createdProductIds.push(productId); imported++
StepCount ==
  /\ psPc = "count"
  /\ psCreated' = Append(psCreated, ProductId(psI))
  /\ psImported' = psImported + 1
  /\ psPc' = "next"
  /\ UNCHANGED <<psFlags, psProducts, psI, psFailed, psOutcomes, psCalls>>
  /\ UNCHANGED psLedger
  /\ UNCHANGED exceptSteps

\* end of the loop body: the delay, then the next product or the loop's end
StepNext ==
  /\ psPc = "next"
  /\ IF psI < Len(psProducts)
     THEN /\ psI' = psI + 1
          /\ psPc' = "optimize"
          /\ psCalls' = <<>>
     ELSE /\ psI' = psI
          /\ psPc' = "collections"
          /\ psCalls' = <<>>
  /\ UNCHANGED <<psFlags, psProducts, psImported, psFailed, psCreated, psOutcomes>>
  /\ UNCHANGED psLedger
  /\ UNCHANGED exceptSteps

\* the collection pass: with collections selected and a product created, one
\* collectionAddProducts call per collection, each in its own try/catch
StepCollections ==
  /\ psPc = "collections"
  /\ \E collectionIds \in CollectionIdLists :
       /\ psCollectionIds' = collectionIds
       /\ IF Len(collectionIds) > 0 /\ Len(psCreated) > 0
          THEN psCollectionFailed' \in SUBSET Range(collectionIds)
          ELSE psCollectionFailed' = {}
  /\ psPc' = "update"
  /\ UNCHANGED <<psFlags, psProducts, psI, psImported, psFailed, psCreated, psOutcomes,
                 psCalls, psBatch, psStatusWrites>>
  /\ UNCHANGED exceptSteps

\* a final update that marks a run without any imported product 'failed'
StepUpdateBatchFailedIfNone ==
  /\ psPc = "update"
  /\ psBatch' = [psBatch EXCEPT !.status = IF psImported = 0 THEN "failed"
                                           ELSE "completed",
                                 !.imported_products = psImported,
                                 !.failed_products = psFailed]
  /\ psStatusWrites' = Append(psStatusWrites, psBatch'.status)
  /\ psPc' = "done"
  /\ UNCHANGED <<psFlags, psProducts, psI, psImported, psFailed, psCreated, psOutcomes,
                 psCalls, psCollectionIds, psCollectionFailed>>
  /\ UNCHANGED exceptSteps

\* UPDATE import_batches SET status = 'completed', counters, completed_at
StepUpdateBatch ==
  /\ psPc = "update"
  /\ psBatch' = [psBatch EXCEPT !.status = "completed",
                                 !.imported_products = psImported,
                                 !.failed_products = psFailed]
  /\ psStatusWrites' = Append(psStatusWrites, "completed")
  /\ psPc' = "done"
  /\ UNCHANGED <<psFlags, psProducts, psI, psImported, psFailed, psCreated, psOutcomes,
                 psCalls, psCollectionIds, psCollectionFailed>>
  /\ UNCHANGED exceptSteps

NextSteps ==
  \/ StepInsertBatch
  \/ StepOptimize
  \/ StepEnhance
  \/ StepCreateOk
  \/ StepCreateFails
  \/ StepVariant
  \/ StepMedia
  \/ StepCount
  \/ StepNext
  \/ StepCollections
  \/ StepUpdateBatch

SpecSteps == InitSteps /\ [][NextSteps]_vars

\* the handler is one async function whose awaited calls all return or
\* throw: it keeps taking steps until it has answered
\* and the runs whose products all carry an image, so that each of them
\* makes every kind of call
InitStepsLive == InitSteps /\ \A k \in 1..Len(psProducts) : psProducts[k].images = 1

SpecStepsLive == InitStepsLive /\ [][NextSteps]_vars /\ WF_vars(NextSteps)

\* positions in the log of the product in hand of the calls named `name`
CallsOf(name) == {k \in 1..Len(psCalls) : psCalls[k].call = name}

\* the product in hand was created without user errors
StepCreated == \E k \in CallsOf("productCreate") : psCalls[k].outcome = "ok"

\* number of the first n products whose creation had the outcomes in `which`
CountOutcomes(which, n) == Cardinality({k \in 1..n : psOutcomes[k] \in which})

\* C21: once a product's creation call has succeeded without user errors the
\* product is counted as imported and its id is in createdProductIds whatever
\* the outcome of its variant update and media attachment (user errors or a
\* throw, also for a product with no variants): these change neither
\* counter, are made at most once, and the run goes on to the next product.
C21_SubStepsNonFatal ==
  /\ Cardinality(CallsOf("productVariantsBulkUpdate")) <= 1
  /\ Cardinality(CallsOf("productCreateMedia")) <= 1
  /\ Cardinality(CallsOf("productCreate")) <= 1
  /\ psPc \in {"variant", "media", "count"} =>
        /\ StepCreated
        /\ psImported = CountOutcomes({"ok"}, psI - 1)
        /\ psFailed = CountOutcomes({"userErrors", "throws"}, psI - 1)
  /\ psPc = "next" => (StepCreated <=> psOutcomes[psI] = "ok")
  /\ (psPc \in {"next", "collections", "update", "done"} /\ Len(psProducts) > 0) =>
        /\ psImported = CountOutcomes({"ok"}, psI)
        /\ psFailed = CountOutcomes({"userErrors", "throws"}, psI)
        /\ psCreated = SucceededIds(psOutcomes, psI)
  /\ (psPc \in {"collections", "update", "done"} /\ Len(psProducts) > 0) =>
        Len(psOutcomes) = Len(psProducts) /\ psI = Len(psProducts)

C21_Witness ==
  /\ psPc = "next"
  /\ psI = 2
  /\ psProducts = <<[images |-> 1, variants |-> 1], [images |-> 1, variants |-> 0]>>
  /\ psOutcomes = <<"userErrors", "ok">>
  /\ psCreated = <<ProductId(2)>>
  /\ psImported = 1
  /\ psFailed = 1
  /\ psCalls = <<Call("productCreate", "ok"), Call("productVariantsBulkUpdate", "throws"),
                 Call("productCreateMedia", "throws")>>

\* C22: a staged upload slot is requested and a binary uploaded for a
\* product only after that product's creation call has succeeded, so a
\* product whose creation fails causes no staged upload and no media call.
C22_MediaStepsAfterCreation ==
  \A k \in CallsOf("stagedUploadsCreate") \cup CallsOf("upload")
             \cup CallsOf("productCreateMedia") :
     \E c \in CallsOf("productCreate") : c < k /\ psCalls[c].outcome = "ok"

(***************************************************************************)
(* The call sites of the generative service: callGemini,                   *)
(* enhanceProductImage and generateProductImage                            *)
(***************************************************************************)
AiCallSites == RetryFunctions \cup {"generateProductImage"}

\* generateProductImage fetches a reference image only in "enhance" mode
InitSites ==
  /\ IdleStrip
  /\ IdleOptimize
  /\ IdleUrl
  /\ IdleCollection
  /\ IdleScrape
  /\ IdlePricing
  /\ IdlePublish
  /\ IdleKey
  /\ IdleVariants
  /\ IdleBatches
  /\ IdleSteps
  /\ IdleReoptimize
  /\ IdleNormalize
  /\ IdlePages
  /\ IdleTenants
  /\ rtFn \in AiCallSites
  /\ rtPc \in (IF rtFn = "enhanceProductImage" THEN {"image"}
               ELSE IF rtFn = "generateProductImage" THEN {"image", "attempt"}
               ELSE {"attempt"})
  /\ rtAttempt = 0
  /\ rtRequests = 0
  /\ rtDelays = <<>>
  /\ rtResponses = <<>>
  /\ rtResult = NULL

\* generateProductImage: one request; a non-2xx status (429 included), a
\* thrown fetch or a response without an image part throws to the caller
GenerateRequest ==
  /\ rtPc = "attempt"
  /\ rtFn = "generateProductImage"
  /\ \E response \in AiResponses :
       /\ rtResponses' = Append(rtResponses, response)
       /\ IF response = "ok"
          THEN rtResult' = "value" /\ rtPc' = "done"
          ELSE rtResult' = "error" /\ rtPc' = "failed"
  /\ rtRequests' = rtRequests + 1
  /\ UNCHANGED <<rtFn, rtAttempt, rtDelays>>
  /\ UNCHANGED exceptRetry

NextSites ==
  \/ FetchSourceImage
  \/ AttemptSucceeds
  \/ AttemptFailsRetry
  \/ AttemptFailsLast
  \/ GenerateRequest

SpecSites == InitSites /\ [][NextSites]_vars

\* C23: every call site of the generative service (callGemini,
\* enhanceProductImage, generateProductImage) applies the retry/backoff
\* policy: a 429 response with retries left is followed by a wait and
\* another request, it does not fail the call at once.
C23_Every429Retried ==
  \A k \in 1..Len(rtResponses) :
     (rtResponses[k] = "429" /\ k <= MaxRetries) =>
        /\ Len(rtDelays) >= k
        /\ rtDelays[k] > 0
        /\ rtPc = "failed" => Len(rtResponses) > k

\* positions of the rejected optimizations among the first n products, in order
RECURSIVE RejectedUpTo(_)
RejectedUpTo(n) ==
  IF n = 0 THEN <<>>
  ELSE IF obOutcome[n] = "rejected" THEN Append(RejectedUpTo(n - 1), n)
       ELSE RejectedUpTo(n - 1)

\* products whose results have been collected
Collected == IF obI < obTotal THEN obI ELSE obTotal

\* C24: optimizeProducts returns exactly one record per input product, at
\* the index of its input whatever the order in which the optimizations
\* settle; each rejected optimization gives one warning naming the product
\* and a fallback record whose title, description and images are the
\* untouched originals; there are as many warnings as rejections.
C24_OneRecordPerProduct ==
  (obPc # "idle") =>
    /\ Len(obOptimized) = Collected
    /\ \A k \in 1..Len(obOptimized) :
          /\ obOptimized[k].product = k
          /\ obOutcome[k] = "rejected" => obOptimized[k] = FallbackRecord(k)
          /\ obOutcome[k] = "fulfilled" => obOptimized[k] = FulfilledValue(k)
    /\ obWarnings = RejectedUpTo(Collected)
    /\ obPc = "done" =>
          /\ Len(obOptimized) = obTotal
          /\ Len(obWarnings) = Cardinality({k \in 1..obTotal : obOutcome[k] = "rejected"})

C24_Witness ==
  /\ obPc = "done"
  /\ obTotal = 4
  /\ obOutcome = <<"rejected", "fulfilled", "rejected", "fulfilled">>
  /\ obWarnings = <<1, 3>>
  /\ obOptimized[1].title = "original"
  /\ obOptimized[2].title = "optimized"
  /\ obOptimized[3] = FallbackRecord(3)

(***************************************************************************)
(* optimizeProduct over a product that may already be an OptimizedProduct  *)
(* (optimize action, then the publish action with optimizeContent)         *)
(***************************************************************************)
MaxRounds == 2

\* a ScrapedProduct has no originalTitle / originalDescription
ScrapedRecords ==
  [title : {"t0"}, description : {"d0"}, vendor : {"v1", "v2"}, alt : {NULL, "a0"},
   originalTitle : {NULL}, originalDescription : {NULL}]

\* what the title, description and alt text calls can leave: the AI's text,
\* or the input's own text when the call fails
TitlesAfter(product) == {product.title, "t1", "t2"}

DescriptionsAfter(product) == {product.description, "d1"}

AltsAfter(product) == {product.alt, "a1"}

\* the returned {...product, originalTitle: product.title,
\* originalDescription: product.description, title, description, images}
optimizeProductResult(product, title, description, alt) ==
  [product EXCEPT !.originalTitle = product.title,
                  !.originalDescription = product.description,
                  !.title = title,
                  !.description = description,
                  !.alt = alt]

InitReoptimize ==
  /\ IdleStrip
  /\ IdleOptimize
  /\ IdleUrl
  /\ IdleCollection
  /\ IdleScrape
  /\ IdlePricing
  /\ IdlePublish
  /\ IdleKey
  /\ IdleVariants
  /\ IdleRetry
  /\ IdleBatches
  /\ IdleSteps
  /\ IdleNormalize
  /\ IdlePages
  /\ IdleTenants
  /\ roPc = "ready"
  /\ roScraped \in ScrapedRecords
  /\ roProduct = roScraped
  /\ roInput = roScraped
  /\ roRounds = 0

\* optimizeProduct called with the product as it now is
OptimizeProductCall ==
  /\ roPc = "ready"
  /\ roRounds < MaxRounds
  /\ roInput' = roProduct
  /\ \E title \in TitlesAfter(roProduct), description \in DescriptionsAfter(roProduct),
        alt \in AltsAfter(roProduct) :
       roProduct' = optimizeProductResult(roProduct, title, description, alt)
  /\ roRounds' = roRounds + 1
  /\ UNCHANGED <<roPc, roScraped>>
  /\ UNCHANGED exceptReoptimize

\* the product is published: no further optimization
PublishOptimized ==
  /\ roPc = "ready"
  /\ roPc' = "published"
  /\ UNCHANGED <<roProduct, roScraped, roInput, roRounds>>
  /\ UNCHANGED exceptReoptimize

NextReoptimize ==
  \/ OptimizeProductCall
  \/ PublishOptimized

SpecReoptimize == InitReoptimize /\ [][NextReoptimize]_vars

\* C25: after optimizeProduct, originalTitle and originalDescription hold the
\* title and description the product had before any optimization, also when
\* the product is optimized a second time, and every field other than title,
\* description and image alt texts equals the input's.
C25_OriginalsPreserved ==
  roRounds >= 1 =>
    /\ roProduct.originalTitle = roScraped.title
    /\ roProduct.originalDescription = roScraped.description
    /\ roProduct.vendor = roInput.vendor

\* a compare-at amount that is published: a number above 0
IsPositive(c) == c # NoPrice /\ ~IsNaN(c) /\ c.v > 0

\* the scraped compare-at price through the currency conversion only
ConvertedCompareAt(compareAt, sourceCurrency, targetCurrency) ==
  LET converted == IF compareAt = NoPrice THEN NoPrice
                   ELSE convertCurrency(compareAt, sourceCurrency, targetCurrency)
  IN IF IsPositive(converted) THEN ToFixed2(converted) ELSE NoPrice

\* the same, then rounded per the configured policy
RoundedCompareAt(compareAt, sourceCurrency, targetCurrency, rounding) ==
  LET converted == IF compareAt = NoPrice THEN NoPrice
                   ELSE convertCurrency(compareAt, sourceCurrency, targetCurrency)
      rounded == IF IsPositive(converted) THEN applyRounding(converted, rounding)
                 ELSE converted
  IN IF IsPositive(rounded) THEN ToFixed2(rounded) ELSE NoPrice

\* compare-at price recomputed from the converted, retail-multiplied price
RecomputedCompareAt(price, settings, sourceCurrency, targetCurrency) ==
  LET converted == convertCurrency(price, sourceCurrency, targetCurrency)
      retail == IF ~settings.retail_price_manual /\ settings.retail_price_multiplier # 100
                THEN Times(converted, settings.retail_price_multiplier) ELSE converted
      compare == Times(retail, settings.compare_at_price_multiplier)
      rounded == IF IsPositive(compare) THEN applyRounding(compare, settings.price_rounding)
                 ELSE compare
  IN IF IsPositive(rounded) THEN ToFixed2(rounded) ELSE NoPrice

\* the compare-at multiplier is not to be applied
CompareAtKept ==
  prSettings.compare_at_price_manual \/ prSettings.compare_at_price_multiplier <= 0

MaxMissing == 2

\* fields of the raw storefront product and of its images, variants, options
RawProductFields ==
  {"id", "title", "handle", "body_html", "vendor", "product_type", "tags",
   "images", "variants", "options"}

RawImageFields == {"src", "alt", "position"}

RawVariantFields ==
  {"title", "price", "compare_at_price", "sku", "weight", "weight_unit",
   "inventory_quantity", "option1", "option2", "option3"}

RawOptionFields == {"name", "values"}

RawFields ==
  ({"product"} \X RawProductFields) \cup ({"image"} \X RawImageFields)
    \cup ({"variant"} \X RawVariantFields) \cup ({"option"} \X RawOptionFields)

RECURSIVE SubsetsUpTo(_, _)
\* the subsets of S with at most n elements
SubsetsUpTo(S, n) ==
  IF n = 0 THEN {{}}
  ELSE LET smaller == SubsetsUpTo(S, n - 1)
       IN smaller \cup {T \cup {x} : T \in smaller, x \in S}

\* the raw product that lacks the fields in `missing`, as the fields it has:
\* of the product, and of the one image, variant and option of its lists
RawWithout(missing) ==
  [product |-> {f \in RawProductFields : <<"product", f>> \notin missing},
   image |-> {f \in RawImageFields : <<"image", f>> \notin missing},
   variant |-> {f \in RawVariantFields : <<"variant", f>> \notin missing},
   option |-> {f \in RawOptionFields : <<"option", f>> \notin missing}]

\* a payload with up to MaxMissing fields missing, or with none of its fields
RawProducts ==
  {RawWithout(missing) : missing \in SubsetsUpTo(RawFields, MaxMissing)}
    \cup {RawWithout(RawFields)}

\* `x.f || d`: the payload's own value, or the default when it is missing
OrDefault(has, f, d) == IF f \in has THEN "raw" ELSE d

\* `raw.id`, no default: undefined when the payload has no id
AsIs(has, f) == IF f \in has THEN "raw" ELSE "undefined"

\* scraper.server.ts 41-80
normalizeProduct(raw) ==
  LET images == IF "images" \in raw.product
                THEN <<[src |-> OrDefault(raw.image, "src", ""),
                        alt |-> OrDefault(raw.image, "alt", NULL),
                        position |-> OrDefault(raw.image, "position", "idx + 1")]>>
                ELSE <<>>
      variants == IF "variants" \in raw.product
                  THEN <<[title |-> OrDefault(raw.variant, "title", "Default"),
                          price |-> OrDefault(raw.variant, "price", "0.00"),
                          compareAtPrice |-> OrDefault(raw.variant, "compare_at_price", NULL),
                          sku |-> OrDefault(raw.variant, "sku", ""),
                          weight |-> OrDefault(raw.variant, "weight", "0"),
                          weightUnit |-> OrDefault(raw.variant, "weight_unit", "kg"),
                          inventoryQuantity |->
                            OrDefault(raw.variant, "inventory_quantity", "0"),
                          option1 |-> OrDefault(raw.variant, "option1", NULL),
                          option2 |-> OrDefault(raw.variant, "option2", NULL),
                          option3 |-> OrDefault(raw.variant, "option3", NULL)]>>
                  ELSE <<>>
      options == IF "options" \in raw.product
                 THEN <<[name |-> OrDefault(raw.option, "name", ""),
                         values |-> OrDefault(raw.option, "values", "[]")]>>
                 ELSE <<>>
  IN [externalId |-> AsIs(raw.product, "id"),
      title |-> OrDefault(raw.product, "title", ""),
      handle |-> OrDefault(raw.product, "handle", ""),
      description |-> OrDefault(raw.product, "body_html", ""),
      vendor |-> OrDefault(raw.product, "vendor", ""),
      productType |-> OrDefault(raw.product, "product_type", ""),
      tags |-> OrDefault(raw.product, "tags", "[]"),
      images |-> images,
      variants |-> variants,
      options |-> options]

InitNormalize ==
  /\ IdleStrip
  /\ IdleOptimize
  /\ IdleUrl
  /\ IdleCollection
  /\ IdleScrape
  /\ IdlePricing
  /\ IdlePublish
  /\ IdleKey
  /\ IdleVariants
  /\ IdleRetry
  /\ IdleBatches
  /\ IdleSteps
  /\ IdleReoptimize
  /\ IdlePages
  /\ IdleTenants
  /\ nzPc = "fetch"
  /\ nzRaw \in RawProducts
  /\ nzResult = [externalId |-> NULL, title |-> NULL, handle |-> NULL,
                 description |-> NULL, vendor |-> NULL, productType |-> NULL,
                 tags |-> NULL, images |-> <<>>, variants |-> <<>>, options |-> <<>>]

\* scrapeProductUrl: a non-2xx response throws
ScrapeProductFetchFails ==
  /\ nzPc = "fetch"
  /\ nzPc' = "failed"
  /\ UNCHANGED <<nzRaw, nzResult>>
  /\ UNCHANGED exceptNormalize

\* scrapeProductUrl: normalizeProduct(data.product, sourceUrl, store)
NormalizeProductCall ==
  /\ nzPc = "fetch"
  /\ nzResult' = normalizeProduct(nzRaw)
  /\ nzPc' = "done"
  /\ UNCHANGED nzRaw
  /\ UNCHANGED exceptNormalize

NextNormalize ==
  \/ ScrapeProductFetchFails
  \/ NormalizeProductCall

SpecNormalize == InitNormalize /\ [][NextNormalize]_vars

\* no field of the record is undefined
AllDefined(record) == \A f \in DOMAIN record : record[f] # "undefined"

\* C27: for every raw product with any subset of its fields missing,
\* normalizeProduct gives a ScrapedProduct none of whose fields, and none of
\* whose variants', images' or options' fields, is undefined.
C27_NoFieldUndefined ==
  nzPc = "done" =>
    /\ \A f \in {"externalId", "title", "handle", "description", "vendor",
                 "productType", "tags"} : nzResult[f] # "undefined"
    /\ \A k \in 1..Len(nzResult.images) : AllDefined(nzResult.images[k])
    /\ \A k \in 1..Len(nzResult.variants) : AllDefined(nzResult.variants[k])
    /\ \A k \in 1..Len(nzResult.options) : AllDefined(nzResult.options[k])

\* every product of the run failed to be created
AllFailed == \A k \in 1..Len(psOutcomes) : psOutcomes[k] # "ok"

MaxPagedUrls == 2

CollectionStores == {"a", "b"}

CollectionTotals == {0, PageLimit - 1, PageLimit, PageLimit + 1}

CollectionTargets == [store : CollectionStores, total : CollectionTotals]

\* scraper.server.ts 140-142: the page's products, normalized
NormalizedPage(target, page) ==
  LET data == ServerPage(target.total, PageLimit, page)
  IN [k \in 1..Len(data) |-> [sourceStore |-> target.store, externalId |-> data[k]]]

InitPages ==
  /\ IdleStrip
  /\ IdleOptimize
  /\ IdleUrl
  /\ IdleCollection
  /\ IdleScrape
  /\ IdlePricing
  /\ IdlePublish
  /\ IdleKey
  /\ IdleVariants
  /\ IdleRetry
  /\ IdleBatches
  /\ IdleSteps
  /\ IdleReoptimize
  /\ IdleNormalize
  /\ IdleTenants
  /\ csPc = "fetch"
  /\ csTargets \in SeqsUpTo(CollectionTargets, MaxPagedUrls) \ {<<>>}
  /\ csIdx = 1
  /\ csPage = 1
  /\ csProducts = <<>>
  /\ csResults = <<>>
  /\ csErrors = <<>>
  /\ csRead = <<>>
  /\ csOutcomes = <<>>

\* app.api.scrape.tsx 20: the next URL of the loop, or the end of the loop
NextCollectionUrl ==
  /\ csIdx' = csIdx + 1
  /\ csPage' = 1
  /\ csProducts' = <<>>
  /\ csPc' = IF csIdx = Len(csTargets) THEN "done" ELSE "fetch"

\* scraper.server.ts 117-149 and app.api.scrape.tsx 32-33: a page answers 2xx;
\* after the last page the call returns and the action pushes its products
CollectionPageOk ==
  /\ csPc = "fetch"
  /\ LET data == NormalizedPage(csTargets[csIdx], csPage)
         products == csProducts \o data
     IN IF Len(data) > 0 /\ ~ShortPage(Len(data))
        THEN /\ csProducts' = products
             /\ csPage' = csPage + 1
             /\ UNCHANGED <<csPc, csIdx, csResults, csRead, csOutcomes>>
        ELSE /\ csResults' = csResults \o products
             /\ csRead' = Append(csRead, Len(products))
             /\ csOutcomes' = Append(csOutcomes, "ok")
             /\ NextCollectionUrl
  /\ UNCHANGED <<csTargets, csErrors, exceptPages>>

\* a failing page whose call hands the products read so far to the action
CollectionPageFailsPartial ==
  /\ csPc = "fetch"
  /\ csErrors' = Append(csErrors, [url |-> csIdx])
  /\ csResults' = csResults \o csProducts
  /\ csRead' = Append(csRead, Len(csProducts))
  /\ csOutcomes' = Append(csOutcomes, "error")
  /\ NextCollectionUrl
  /\ UNCHANGED <<csTargets, exceptPages>>

\* scraper.server.ts 131-133 and app.api.scrape.tsx 34-36: a page answers
\* non-2xx, the call throws and the action records the error
CollectionPageFails ==
  /\ csPc = "fetch"
  /\ csErrors' = Append(csErrors, [url |-> csIdx])
  /\ csRead' = Append(csRead, Len(csProducts))
  /\ csOutcomes' = Append(csOutcomes, "error")
  /\ NextCollectionUrl
  /\ UNCHANGED <<csTargets, csResults, exceptPages>>

NextPages == CollectionPageOk \/ CollectionPageFails

SpecPages == InitPages /\ [][NextPages]_vars

\* every product the store lists in the collection, in page order
WholeCollection(target) ==
  [k \in 1..target.total |-> [sourceStore |-> target.store, externalId |-> k]]

\* what the URL at position i has added to the action's results
Contribution(i) ==
  IF csOutcomes[i] = "ok" THEN WholeCollection(csTargets[i]) ELSE <<>>

RECURSIVE ErrorUrls(_)
ErrorUrls(n) ==
  IF n = 0 THEN <<>>
  ELSE ErrorUrls(n - 1) \o (IF csOutcomes[n] = "error" THEN <<[url |-> n]>> ELSE <<>>)

\* C29: scrapeCollectionUrl is all-or-nothing: when any page, the first or a
\* later one, answers non-2xx the call fails and no product read from the
\* earlier pages reaches the action's results; each collection URL adds either
\* all the products of its pages or nothing but one error entry.
C29_AllOrNothing ==
  csPc \in {"fetch", "done"} =>
    /\ Len(csOutcomes) = csIdx - 1
    /\ Len(csRead) = Len(csOutcomes)
    /\ csResults = Flatten([i \in 1..Len(csOutcomes) |-> Contribution(i)])
    /\ csErrors = ErrorUrls(Len(csOutcomes))
    /\ \A i \in 1..Len(csOutcomes) :
         csOutcomes[i] = "ok" => csRead[i] = csTargets[i].total

C29_Witness ==
  /\ csPc = "done"
  /\ csOutcomes = <<"error", "ok">>
  /\ csRead = <<PageLimit, PageLimit + 1>>
  /\ csErrors = <<[url |-> 1]>>
  /\ csResults = WholeCollection(csTargets[2])

(***************************************************************************)
(* Specification SpecTenants: the application's D1 tables shared by two    *)
(* shops, and the requests that read or write them.  Every request is      *)
(* authenticated: `shop` below is session.shop of the request, `id` is the *)
(* identifier the request supplies (a route parameter, a form field or a   *)
(* field of the publish payload), any row id of the table or one that no   *)
(* row has.  A template row keeps its position (its AUTOINCREMENT id) when *)
(* deleted, marked live = FALSE.  tnLast is the last request served: who   *)
(* made it, the id it supplied and the rows its queries returned.          *)
(***************************************************************************)
MaxRequests == 3

Shops == {"A", "B"}

TemplateNames == {"n", "m"}

WordLists == {<<>>, <<"w">>}

Vendors == {"v"}

Row(table, shop, id) == [table |-> table, shop |-> shop, id |-> id]

\* part_005 18, 46, 56; part_006 53; part_003 128, 135: WHERE id = ? AND shop = ?
TemplateIdsAnyShop(id, shop) ==
  {k \in 1..Len(tnTemplates) : k = id /\ tnTemplates[k].live}

TemplateIds(id, shop) ==
  {k \in 1..Len(tnTemplates) : k = id /\ tnTemplates[k].shop = shop /\ tnTemplates[k].live}

\* WHERE shop = ?
TemplateIdsOf(shop) ==
  {k \in 1..Len(tnTemplates) : tnTemplates[k].shop = shop /\ tnTemplates[k].live}

BatchIdsOf(shop) == {k \in 1..Len(tnBatches) : tnBatches[k].shop = shop}

\* the ids a request can supply: every id the table has issued and one more
SuppliedIds == 1..(Len(tnTemplates) + 1)

InitTenants ==
  /\ IdleStrip
  /\ IdleOptimize
  /\ IdleUrl
  /\ IdleCollection
  /\ IdleScrape
  /\ IdlePricing
  /\ IdlePublish
  /\ IdleKey
  /\ IdleVariants
  /\ IdleRetry
  /\ IdleBatches
  /\ IdleSteps
  /\ IdleReoptimize
  /\ IdleNormalize
  /\ IdlePages
  /\ tnTemplates = <<>>
  /\ tnWords = {}
  /\ tnSettings = {}
  /\ tnBatches = <<>>
  /\ tnRuns = <<>>
  /\ tnLast = [op |-> "start", by |-> "none", id |-> 0, rows |-> {}]
  /\ tnRequests = 0

Served(op, shop, id, rows) ==
  /\ tnRequests < MaxRequests
  /\ tnRequests' = tnRequests + 1
  /\ tnLast' = [op |-> op, by |-> shop, id |-> id, rows |-> rows]

\* part_006 13-23: the templates page
TemplatesList ==
  \E shop \in Shops :
    /\ Served("templatesList", shop, 0,
              {Row("prompt_templates", tnTemplates[k].shop, k) : k \in TemplateIdsOf(shop)})
    /\ UNCHANGED <<tnTemplates, tnWords, tnSettings, tnBatches, tnRuns, exceptTenants>>

\* part_006 32-48: intent "create"
TemplateCreate ==
  \E shop \in Shops :
    /\ tnTemplates' = Append(tnTemplates, [shop |-> shop, name |-> "n", live |-> TRUE])
    /\ Served("templateCreate", shop, 0, {})
    /\ UNCHANGED <<tnWords, tnSettings, tnBatches, tnRuns, exceptTenants>>

\* part_005 13-27: the loader of one template
TemplateLoad ==
  \E shop \in Shops, id \in SuppliedIds :
    /\ Served("templateLoad", shop, id,
              {Row("prompt_templates", tnTemplates[k].shop, k) : k \in TemplateIds(id, shop)})
    /\ UNCHANGED <<tnTemplates, tnWords, tnSettings, tnBatches, tnRuns, exceptTenants>>

\* part_005 35-52: intent "update"
TemplateUpdate ==
  \E shop \in Shops, id \in SuppliedIds, name \in TemplateNames :
    /\ tnTemplates' = [k \in 1..Len(tnTemplates) |->
                         IF k \in TemplateIds(id, shop)
                         THEN [tnTemplates[k] EXCEPT !.name = name] ELSE tnTemplates[k]]
    /\ Served("templateUpdate", shop, id, {})
    /\ UNCHANGED <<tnWords, tnSettings, tnBatches, tnRuns, exceptTenants>>

\* part_005 54-60 and part_006 51-57: intent "delete"
TemplateDelete ==
  \E shop \in Shops, id \in SuppliedIds :
    /\ tnTemplates' = [k \in 1..Len(tnTemplates) |->
                         IF k \in TemplateIds(id, shop)
                         THEN [tnTemplates[k] EXCEPT !.live = FALSE] ELSE tnTemplates[k]]
    /\ Served("templateDelete", shop, id, {})
    /\ UNCHANGED <<tnWords, tnSettings, tnBatches, tnRuns, exceptTenants>>

\* part_001 19-51: the settings page reads the shop's settings row and words
SettingsLoad ==
  \E shop \in Shops :
    /\ Served("settingsLoad", shop, 0,
              {Row("store_settings", r.shop, 0) : r \in {q \in tnSettings : q.shop = shop}}
              \cup {Row("negative_words", r.shop, 0) : r \in {q \in tnWords : q.shop = shop}})
    /\ UNCHANGED <<tnTemplates, tnWords, tnSettings, tnBatches, tnRuns, exceptTenants>>

\* part_001 59-94: INSERT OR REPLACE INTO store_settings (shop, ...)
SaveSettings ==
  \E shop \in Shops, vendor \in Vendors :
    /\ tnSettings' = {r \in tnSettings : r.shop # shop}
                        \cup {[shop |-> shop, vendor |-> vendor]}
    /\ Served("saveSettings", shop, 0, {})
    /\ UNCHANGED <<tnTemplates, tnWords, tnBatches, tnRuns, exceptTenants>>

\* part_001 96-113: DELETE FROM negative_words WHERE shop = ?, then the inserts
SaveNegativeWords ==
  \E shop \in Shops, words \in WordLists :
    /\ tnWords' = {r \in tnWords : r.shop # shop}
                     \cup {[shop |-> shop, word |-> w] : w \in Range(words)}
    /\ Served("saveNegativeWords", shop, 0, {})
    /\ UNCHANGED <<tnTemplates, tnSettings, tnBatches, tnRuns, exceptTenants>>

\* app.batches.tsx 20-38: the batches page
BatchesLoad ==
  \E shop \in Shops :
    /\ Served("batchesLoad", shop, 0,
              {Row("import_batches", tnBatches[k].shop, k) : k \in BatchIdsOf(shop)})
    /\ UNCHANGED <<tnTemplates, tnWords, tnSettings, tnBatches, tnRuns, exceptTenants>>

\* part_003 99-140: a publish run inserts its batch row, keeps last_row_id as
\* batchId and reads the two prompt templates the payload names
PublishRunStart ==
  \E shop \in Shops, titleTemplateId \in SuppliedIds, descTemplateId \in SuppliedIds :
    /\ tnBatches' = Append(tnBatches, [shop |-> shop, status |-> "processing"])
    /\ tnRuns' = Append(tnRuns, [shop |-> shop, batchId |-> Len(tnBatches) + 1,
                                  pc |-> "running"])
    /\ Served("publishStart", shop, titleTemplateId,
              {Row("prompt_templates", tnTemplates[k].shop, k) :
                 k \in TemplateIds(titleTemplateId, shop) \cup TemplateIds(descTemplateId, shop)})
    /\ UNCHANGED <<tnTemplates, tnWords, tnSettings, exceptTenants>>

\* part_003 113: const batchId = batchResult.meta.last_row_id
BatchIdOf(run) == tnRuns[run].batchId

\* part_003 363-369: UPDATE import_batches SET status = 'completed' ... WHERE id = ?
PublishRunFinish ==
  \E run \in 1..Len(tnRuns) :
    /\ tnRuns[run].pc = "running"
    /\ tnBatches' = [tnBatches EXCEPT ![BatchIdOf(run)].status = "completed"]
    /\ tnRuns' = [tnRuns EXCEPT ![run].pc = "done"]
    /\ Served("publishFinish", tnRuns[run].shop, run, {})
    /\ UNCHANGED <<tnTemplates, tnWords, tnSettings, exceptTenants>>

NextTenants ==
  \/ TemplatesList
  \/ TemplateCreate
  \/ TemplateLoad
  \/ TemplateUpdate
  \/ TemplateDelete
  \/ SettingsLoad
  \/ SaveSettings
  \/ SaveNegativeWords
  \/ BatchesLoad
  \/ PublishRunStart
  \/ PublishRunFinish

SpecTenants == InitTenants /\ [][NextTenants]_vars

\* the rows of the four tables that belong to a shop other than `shop`
RowsOfOthers(templates, words, settings, batches, shop) ==
  [templates |-> {<<k, templates[k]>> : k \in {j \in 1..Len(templates) : templates[j].shop # shop}},
   words |-> {r \in words : r.shop # shop},
   settings |-> {r \in settings : r.shop # shop},
   batches |-> {<<k, batches[k]>> : k \in {j \in 1..Len(batches) : batches[j].shop # shop}}]

\* one request served for the shop tnLast' names
IsolatedStep ==
  /\ tnLast'.by \in Shops
  /\ \A r \in tnLast'.rows : r.shop = tnLast'.by
  /\ RowsOfOthers(tnTemplates', tnWords', tnSettings', tnBatches', tnLast'.by)
       = RowsOfOthers(tnTemplates, tnWords, tnSettings, tnBatches, tnLast'.by)
  /\ tnLast'.op = "publishFinish" =>
       /\ Len(tnBatches') = Len(tnBatches)
       /\ \A k \in 1..Len(tnBatches) :
            tnBatches'[k] # tnBatches[k] => k = tnRuns[tnLast'.id].batchId
       /\ tnBatches[tnRuns[tnLast'.id].batchId].shop = tnLast'.by

\* C30: tenant isolation.  A request authenticated as one shop returns no
\* prompt template, negative word, settings row or import batch of another
\* shop and leaves every row of another shop as it was, whatever id it
\* supplies; the UPDATE that ends a publish run changes no batch row but the
\* one the run inserted.
C30_TenantIsolation == [][IsolatedStep]_vars

\* shop A has just asked to update, by its id, the template shop B created
C30_Witness ==
  /\ tnLast.op = "templateUpdate"
  /\ tnLast.by = "A"
  /\ tnLast.id = 1
  /\ tnTemplates = <<[shop |-> "B", name |-> "n", live |-> TRUE]>>

\* a run of shop A has ended after a run of shop B inserted a later row
C30_WitnessOwnRow ==
  /\ tnLast.op = "publishFinish"
  /\ tnLast.by = "A"
  /\ tnBatches = <<[shop |-> "A", status |-> "completed"],
                   [shop |-> "B", status |-> "processing"]>>

====
